---------------------------- MODULE Spec2Model ----------------------------
(***************************************************************************)
(* JSON DSL compiler (json-dsl/src/compiler.ts): the registry              *)
(* (functionDefs, compiledFunctions, builtins), the closures that compile  *)
(* returns, and the evaluator (executeBlock, executeStmt, evalExpr) as a   *)
(* small-step machine: one step enters a node or returns a value or a      *)
(* ReturnValue|null to the construct that waits for it.                    *)
(***************************************************************************)
EXTENDS Integers, Sequences, FiniteSets, TLC

(***************************************************************************)
(* JavaScript values.  A primitive or a reference carries its type in t;   *)
(* a JSON node of the DSL (an object with keys) is a record without t.     *)
(***************************************************************************)
Undefined == [t |-> "undefined"]
Null == [t |-> "null"]
Bool(b) == [t |-> "boolean", v |-> b]
Num(n) == [t |-> "number", v |-> n]
Str(s) == [t |-> "string", v |-> s]
\* a native callable: owner says where it lives, name which one it is
Fn(owner, name) == [t |-> "function", owner |-> owner, name |-> name]
\* an array or a plain object of the heap
ArrRef(r) == [t |-> "array", ref |-> r]
ObjRef(r) == [t |-> "object", ref |-> r]
\* a host object the DSL was never given (Object.prototype itself)
HostObject(name) == [t |-> "host", name |-> name]

IsPrim(x) == "t" \in DOMAIN x
TypeOf(x) == IF IsPrim(x) THEN x.t ELSE "node"
IsNullish(x) == IsPrim(x) /\ x.t \in {"null", "undefined"}

\* ToBoolean: 0, "", null, undefined and false are falsy
Truthy(x) ==
    IF ~IsPrim(x) THEN TRUE
    ELSE CASE x.t \in {"undefined", "null"} -> FALSE
           [] x.t = "boolean" -> x.v
           [] x.t = "number" -> x.v # 0
           [] x.t = "string" -> x.v # ""
           [] x.t = "NaN" -> FALSE
           [] OTHER -> TRUE

\* the properties every object inherits from Object.prototype
ObjectPrototype ==
    {"constructor", "hasOwnProperty", "isPrototypeOf", "propertyIsEnumerable",
     "toLocaleString", "toString", "valueOf", "__proto__"}

\* name in obj, for a plain object obj kept as a function from its own keys
In(name, obj) == name \in DOMAIN obj \/ name \in ObjectPrototype

\* obj[name], for a plain object obj kept as a function from its own keys
Lookup(obj, name) ==
    IF name \in DOMAIN obj THEN obj[name]
    ELSE IF name = "__proto__" THEN HostObject("Object.prototype")
    ELSE IF name \in ObjectPrototype THEN Fn("Object.prototype", name)
    ELSE Undefined


(***************************************************************************)
(* The nodes of the DSL (types.ts).  A node is a record with the keys of   *)
(* its JSON object; an optional key that is absent is absent from the      *)
(* record, so that 'key' in node is "key" \in DOMAIN node.  The shorthand  *)
(* forms (a bare string, number or boolean) are the primitives above.      *)
(***************************************************************************)
LiteralExpr(v) == [literal |-> v]
RefExpr(name) == [ref |-> name]
MemberExpr(obj, property) == [object |-> obj, property |-> property]
IndexExpr(obj, index) == [object |-> obj, index |-> index]
BinaryExpr(op, l, r) == [operator |-> op, left |-> l, right |-> r]
UnaryExpr(op, a) == [operator |-> op, argument |-> a]
CallExpr(name, args) == [call |-> name, arguments |-> args]
MethodExpr(name, obj, args) == [method |-> name, object |-> obj, arguments |-> args]
TernaryExpr(c, a, b) == [condition |-> c, then |-> a, else |-> b]
\* properties in declaration order: a sequence of <<key, expr>>
ObjectExpr(props) == [properties |-> props]
ArrayExpr(els) == [elements |-> els]

LetStmt(name, e) == [let |-> name, value |-> e]
SetStmt(name, e) == [set |-> name, value |-> e]
IfStmt(c, a) == [if |-> c, then |-> a]
IfElseStmt(c, a, b) == [if |-> c, then |-> a, else |-> b]
ForStmt(name, e, body) == [for |-> name, in |-> e, do |-> body]
WhileStmt(c, body) == [while |-> c, do |-> body]
ReturnStmt(e) == [return |-> e]

\* a JSON array where the compiler asks whether the value is one (params, body)
List(items) == [t |-> "list", items |-> items]
\* a function definition whose config has no trailing return, and one that has
FunctionDef(type, params, body) ==
    [type |-> type, config |-> [params |-> List(params), body |-> List(body)]]
FunctionDefReturn(type, params, body, ret) ==
    [type |-> type,
     config |-> [params |-> List(params), body |-> List(body), return |-> ret]]

\* ReturnValue | null (types.ts), what executeStmt and executeBlock return
NullResult == [__return__ |-> FALSE]
ReturnValue(v) == [__return__ |-> TRUE, value |-> v]

\* the errors the compiler throws, named as the taxonomy names them
Error(name, arg) == [error |-> name, arg |-> arg]


(***************************************************************************)
(* State.                                                                  *)
(***************************************************************************)
VARIABLES
    build,              \* which build of the compiler runs: "src" (compiler.ts) or "dist" (compiler.js)
    host,               \* what the host application has in hand: documents, contexts, arguments
    functionDefs,       \* Map name -> FunctionDef, as the sequence of its entries (insertion order)
    compiledFunctions,  \* Map name -> closure, as a function from the names it holds to closure ids
    builtins,           \* the registry's builtin table: own property name -> native callable
    closures,           \* every closure compile has created: closures[id] = what it captured
    ctl,                \* what the evaluator is doing (idle, entering a node, returning from one)
    kont,               \* the constructs waiting for a result, innermost first (the call stack)
    scope,              \* the Scope of the running invocation
    cur,                \* the closure whose body is running (0: none)
    heap,               \* the arrays and objects alive during the invocation
    log                 \* calls of host-supplied callables and hooks during the invocation

vars == <<build, host, functionDefs, compiledFunctions, builtins, closures,
          ctl, kont, scope, cur, heap, log>>

\* the machine as one record, for the operators that compute a step
Machine ==
    [build |-> build, functionDefs |-> functionDefs,
     compiledFunctions |-> compiledFunctions, builtins |-> builtins,
     closures |-> closures, ctl |-> ctl, kont |-> kont, scope |-> scope,
     cur |-> cur, heap |-> heap, log |-> log]

EmptyMap == << >>
Idle == [m |-> "idle"]

\* Map.has, Map.get and Map.set on a Map kept as the sequence of its entries
MapHas(map, key) == \E i \in DOMAIN map : map[i].key = key
MapGet(map, key) == map[CHOOSE i \in DOMAIN map : map[i].key = key].value
MapSet(map, key, value) ==
    IF MapHas(map, key)
    THEN [i \in DOMAIN map |->
            IF map[i].key = key THEN [key |-> key, value |-> value] ELSE map[i]]
    ELSE Append(map, [key |-> key, value |-> value])
MapKeys(map) == [i \in DOMAIN map |-> map[i].key]

\* control: enter an expression or a statement; return a value or a ReturnValue|null
Eval(M, e) == [M EXCEPT !.ctl = [m |-> "expr", e |-> e]]
Exec(M, s) == [M EXCEPT !.ctl = [m |-> "stmt", s |-> s]]
Ret(M, v) == [M EXCEPT !.ctl = [m |-> "val", v |-> v]]
Sig(M, r) == [M EXCEPT !.ctl = [m |-> "sig", r |-> r]]
Push(M, item) == [M EXCEPT !.kont = <<item>> \o @]
Pop(M) == [M EXCEPT !.kont = Tail(@)]
Replace(M, item) == [M EXCEPT !.kont = <<item>> \o Tail(@)]

\* an error that ends the invocation it is raised in and no other: the host
\* sees it when the invocation is the host's, the calling expression goes on
\* with undefined otherwise
ThrowCaughtByCaller(M, err) ==
    LET inner == CHOOSE i \in DOMAIN M.kont :
                    /\ M.kont[i].k \in {"compiledFn", "compiledFn.return"}
                    /\ \A j \in 1..(i - 1) :
                          M.kont[j].k \notin {"compiledFn", "compiledFn.return"}
    IN  IF inner = Len(M.kont)
        THEN [M EXCEPT !.ctl = [m |-> "done", status |-> "threw", error |-> err,
                                closure |-> M.kont[inner].closure,
                                args |-> M.kont[inner].args],
                       !.kont = << >>, !.scope = EmptyMap, !.cur = 0,
                       !.heap = << >>]
        ELSE [M EXCEPT !.ctl = [m |-> "val", v |-> Undefined],
                       !.kont = SubSeq(@, inner + 1, Len(@)),
                       !.scope = M.kont[inner].scope, !.cur = M.kont[inner].cur]

\* throw new Error(...): nothing in the compiler catches, so the whole call stack
\* unwinds to the host, which sees the error
Throw(M, err) ==
    [M EXCEPT !.ctl = [m |-> "done", status |-> "threw", error |-> err,
                       closure |-> M.kont[Len(M.kont)].closure,
                       args |-> M.kont[Len(M.kont)].args],
              !.kont = << >>, !.scope = EmptyMap, !.cur = 0, !.heap = << >>]

\* the ExecutionContext the running closure captured (Undefined: compiled without one)
Context(M) == M.closures[M.cur].context
\* context?.field, as a condition
HasField(context, field) == ~IsPrim(context) /\ field \in DOMAIN context


(***************************************************************************)
(* JavaScript's operators on the values above.  Numbers are integers; the  *)
(* results that are not (NaN, an infinity, a fraction) are values of their *)
(* own.  An operand outside what is modelled has no CASE arm: TLC stops.   *)
(***************************************************************************)
NaN == [t |-> "NaN"]
Infinity(sign) == [t |-> "Infinity", sign |-> sign]
Fraction(n, d) == [t |-> "fraction", n |-> n, d |-> d]
IsNumber(x) == x.t \in {"number", "NaN", "Infinity", "fraction"}

\* ToNumber
ToNumber(x) ==
    CASE IsNumber(x) -> x
      [] x.t = "undefined" -> NaN
      [] x.t = "null" -> Num(0)
      [] x.t = "boolean" -> Num(IF x.v THEN 1 ELSE 0)
      [] x.t = "string" /\ x.v = "" -> Num(0)
      [] x.t = "string" /\ x.v = "0" -> Num(0)
      [] x.t = "string" /\ x.v = "1" -> Num(1)
      [] x.t = "string" /\ x.v \notin {"", "0", "1"} -> NaN
      [] x.t \in {"array", "object", "function", "host"} -> NaN

\* ToString of a primitive
ToStr(x) ==
    CASE x.t = "string" -> x.v
      [] x.t = "number" -> ToString(x.v)
      [] x.t = "boolean" -> IF x.v THEN "true" ELSE "false"
      [] x.t = "null" -> "null"
      [] x.t = "undefined" -> "undefined"
      [] x.t = "NaN" -> "NaN"

Abs(n) == IF n < 0 THEN -n ELSE n
Sign(n) == IF n < 0 THEN -1 ELSE 1
\* l / r of two finite numbers, r # 0 or not
Divide(l, r) ==
    IF r = 0 THEN (IF l = 0 THEN NaN ELSE Infinity(Sign(l)))
    ELSE IF Abs(l) % Abs(r) = 0 THEN Num(Sign(l) * Sign(r) * (Abs(l) \div Abs(r)))
    ELSE Fraction(l, r)
\* l % r: the sign of the dividend
Remainder(l, r) ==
    IF r = 0 THEN NaN ELSE Num(Sign(l) * (Abs(l) % Abs(r)))

\* the arithmetic operators after ToNumber
Arith(op, a, b) ==
    IF a.t = "NaN" \/ b.t = "NaN" THEN NaN
    ELSE CASE a.t = "number" /\ b.t = "number" /\ op = "+" -> Num(a.v + b.v)
           [] a.t = "number" /\ b.t = "number" /\ op = "-" -> Num(a.v - b.v)
           [] a.t = "number" /\ b.t = "number" /\ op = "*" -> Num(a.v * b.v)
           [] a.t = "number" /\ b.t = "number" /\ op = "/" -> Divide(a.v, b.v)
           [] a.t = "number" /\ b.t = "number" /\ op = "%" -> Remainder(a.v, b.v)

\* l + r: concatenation when an operand is a string
Plus(l, r) ==
    IF l.t = "string" \/ r.t = "string" THEN Str(ToStr(l) \o ToStr(r))
    ELSE Arith("+", ToNumber(l), ToNumber(r))

\* l === r
StrictEquals(l, r) ==
    CASE l.t # r.t -> FALSE
      [] l.t = r.t /\ l.t \in {"NaN"} -> FALSE
      [] l.t = r.t /\ l.t \notin {"NaN"} -> l = r

\* l == r
LooseEquals(l, r) ==
    CASE l.t = r.t -> StrictEquals(l, r)
      [] l.t # r.t /\ IsNullish(l) /\ IsNullish(r) -> TRUE
      [] l.t # r.t /\ (IsNullish(l) \/ IsNullish(r)) /\ ~(IsNullish(l) /\ IsNullish(r)) -> FALSE
      [] l.t # r.t /\ ~IsNullish(l) /\ ~IsNullish(r)
           /\ l.t \in {"number", "string", "boolean", "NaN"}
           /\ r.t \in {"number", "string", "boolean", "NaN"} ->
             StrictEquals(ToNumber(l), ToNumber(r))

\* l < r of two values, after ToNumber (a string is compared as a number here)
Less(l, r, orEqual) ==
    LET a == ToNumber(l)
        b == ToNumber(r)
    IN  CASE a.t = "NaN" \/ b.t = "NaN" -> FALSE
          [] a.t = "number" /\ b.t = "number" ->
               IF orEqual THEN a.v <= b.v ELSE a.v < b.v

\* the bitwise operators on int32: the sign bit and the 31 bits below it
HalfSignBit == 2^30
Int32(x) == LET a == ToNumber(x) IN IF a.t = "number" THEN a.v ELSE 0
Low31(n) == IF n < 0 THEN (n + HalfSignBit) + HalfSignBit ELSE n
Bit(op, x, y) ==
    CASE op = "&" -> IF x = 1 /\ y = 1 THEN 1 ELSE 0
      [] op = "|" -> IF x = 1 \/ y = 1 THEN 1 ELSE 0
      [] op = "^" -> IF x # y THEN 1 ELSE 0
RECURSIVE Bits(_, _, _, _)
Bits(op, a, b, width) ==
    IF width = 0 THEN 0
    ELSE Bit(op, a % 2, b % 2) + 2 * Bits(op, a \div 2, b \div 2, width - 1)
Bitwise(op, l, r) ==
    LET a == Int32(l)
        b == Int32(r)
        low == Bits(op, Low31(a), Low31(b), 31)
        sign == Bit(op, IF a < 0 THEN 1 ELSE 0, IF b < 0 THEN 1 ELSE 0)
    IN  Num(IF sign = 1 THEN (low - HalfSignBit) - HalfSignBit ELSE low)

BinaryOperators ==
    {"+", "-", "*", "/", "%", "==", "===", "!=", "!==", "<", "<=", ">", ">=",
     "&&", "||", "&", "|", "^"}

\* binary operators whose / divides whatever the right operand is
evalBinaryOpPlainDivision(op, l, r) ==
    CASE op = "+" -> Plus(l, r)
      [] op \in {"-", "*", "%"} -> Arith(op, ToNumber(l), ToNumber(r))
      [] op = "/" -> Arith("/", ToNumber(l), ToNumber(r))
      [] op = "==" -> Bool(LooseEquals(l, r))
      [] op = "===" -> Bool(StrictEquals(l, r))
      [] op = "!=" -> Bool(~LooseEquals(l, r))
      [] op = "!==" -> Bool(~StrictEquals(l, r))
      [] op = "<" -> Bool(Less(l, r, FALSE))
      [] op = "<=" -> Bool(Less(l, r, TRUE))
      [] op = ">" -> Bool(Less(r, l, FALSE))
      [] op = ">=" -> Bool(Less(r, l, TRUE))
      [] op = "&&" -> IF Truthy(l) THEN r ELSE l
      [] op = "||" -> IF Truthy(l) THEN l ELSE r
      [] op \in {"&", "|", "^"} -> Bitwise(op, l, r)
      [] op \notin BinaryOperators -> Error("UnknownOperator", op)

\* evalBinaryOp(op, l, r): the value, or the Error of an unknown operator
evalBinaryOp(op, l, r) ==
    CASE op = "+" -> Plus(l, r)
      [] op \in {"-", "*", "%"} -> Arith(op, ToNumber(l), ToNumber(r))
      [] op = "/" ->
           IF ~(r.t = "number" /\ r.v = 0)
           THEN Arith("/", ToNumber(l), ToNumber(r))
           ELSE Num(0)
      [] op = "==" -> Bool(LooseEquals(l, r))
      [] op = "===" -> Bool(StrictEquals(l, r))
      [] op = "!=" -> Bool(~LooseEquals(l, r))
      [] op = "!==" -> Bool(~StrictEquals(l, r))
      [] op = "<" -> Bool(Less(l, r, FALSE))
      [] op = "<=" -> Bool(Less(l, r, TRUE))
      [] op = ">" -> Bool(Less(r, l, FALSE))
      [] op = ">=" -> Bool(Less(r, l, TRUE))
      [] op = "&&" -> IF Truthy(l) THEN r ELSE l
      [] op = "||" -> IF Truthy(l) THEN l ELSE r
      [] op \in {"&", "|", "^"} -> Bitwise(op, l, r)
      [] op \notin BinaryOperators -> Error("UnknownOperator", op)

\* evalUnaryOp(op, arg)
evalUnaryOp(op, arg) ==
    CASE op = "!" -> Bool(~Truthy(arg))
      [] op = "-" -> Arith("-", Num(0), ToNumber(arg))
      [] op = "+" -> ToNumber(arg)
      [] op = "~" -> Num(-Int32(arg) - 1)
      [] op \notin {"!", "-", "+", "~"} -> Error("UnknownOperator", op)


(***************************************************************************)
(* The registry's tables as the constructor builds them.                   *)
(***************************************************************************)
BuiltinNames ==
    {"abs", "floor", "ceil", "round", "min", "max", "pow", "sqrt", "random",
     "len", "keys", "values", "entries", "isArray", "isNumber", "isString",
     "isObject", "isNull", "toNumber", "toString", "toJson", "fromJson", "log"}

createBuiltins == [n \in BuiltinNames |-> Fn("builtins", n)]

allowedMethods ==
    {"length", "push", "pop", "shift", "unshift", "slice", "concat",
     "indexOf", "includes", "find", "filter", "map", "reduce",
     "join", "split", "trim", "toLowerCase", "toUpperCase",
     "substring", "charAt", "startsWith", "endsWith",
     "keys", "values", "entries", "hasOwnProperty",
     "toString", "toFixed"}

\* the iteration cap of a while statement (the dist build only)
maxIterations == 100000

(***************************************************************************)
(* Properties of values: value[name] as JavaScript resolves it, own        *)
(* properties first, then the prototype of the value's type, then          *)
(* Object.prototype.                                                       *)
(***************************************************************************)
ArrayPrototype ==
    {"push", "pop", "shift", "unshift", "slice", "concat", "indexOf",
     "includes", "find", "filter", "map", "reduce", "join", "keys", "values",
     "entries", "toString", "forEach", "splice", "sort", "reverse"}
StringPrototype ==
    {"slice", "concat", "indexOf", "includes", "split", "trim", "toLowerCase",
     "toUpperCase", "substring", "charAt", "startsWith", "endsWith", "toString"}
NumberPrototype == {"toString", "toFixed", "valueOf"}
FunctionPrototype == {"call", "apply", "bind", "toString"}

Inherited(name) ==
    IF name = "__proto__" THEN HostObject("Object.prototype")
    ELSE IF name \in ObjectPrototype THEN Fn("Object.prototype", name)
    ELSE Undefined

GetProperty(h, obj, name) ==
    CASE obj.t = "array" ->
           IF name = "length" THEN Num(Len(h[obj.ref].elems))
           ELSE IF name \in ArrayPrototype THEN Fn("Array.prototype", name)
           ELSE Inherited(name)
      [] obj.t = "string" ->
           IF name = "length" THEN Num(Len(obj.v))
           ELSE IF name \in StringPrototype THEN Fn("String.prototype", name)
           ELSE Inherited(name)
      [] IsNumber(obj) ->
           IF name \in NumberPrototype THEN Fn("Number.prototype", name)
           ELSE Inherited(name)
      [] obj.t = "boolean" ->
           IF name \in {"toString", "valueOf"} THEN Fn("Boolean.prototype", name)
           ELSE Inherited(name)
      [] obj.t = "object" ->
           IF name \in DOMAIN h[obj.ref].props THEN h[obj.ref].props[name]
           ELSE Inherited(name)
      [] obj.t = "function" ->
           IF name \in FunctionPrototype THEN Fn("Function.prototype", name)
           ELSE Inherited(name)
      [] obj.t = "host" -> HostObject("host")

\* the characters of a string, for the strings the programs here index or iterate
Chars(s) ==
    CASE s = "" -> << >>
      [] Len(s) = 1 -> <<s>>
      [] s = "ab" -> <<"a", "b">>

\* obj[idx] with idx a value: an element of an array, else the property of that name
GetIndex(h, obj, idx) ==
    IF obj.t = "array" /\ idx.t = "number"
    THEN IF idx.v >= 0 /\ idx.v < Len(h[obj.ref].elems)
         THEN h[obj.ref].elems[idx.v + 1]
         ELSE Undefined
    ELSE IF obj.t = "string" /\ idx.t = "number"
    THEN IF idx.v >= 0 /\ idx.v < Len(obj.v) THEN Str(Chars(obj.v)[idx.v + 1])
         ELSE Undefined
    ELSE GetProperty(h, obj, ToStr(idx))

\* typeof value[Symbol.iterator] === 'function'
IsIterable(x) == x.t \in {"array", "string"}


(***************************************************************************)
(* Calling a native callable: a registry builtin (createBuiltins), a       *)
(* method of a prototype, or a callable the host supplied (a context       *)
(* builtin, a context function, the fn of addBuiltin).  Every call is      *)
(* logged.  A host-supplied callable returns a string naming its owner.    *)
(***************************************************************************)
NativeOwners ==
    {"builtins", "Array.prototype", "String.prototype", "Number.prototype",
     "Boolean.prototype", "Function.prototype", "Object.prototype"}

Arg(args, i) == IF i <= Len(args) THEN args[i] ELSE Undefined

RECURSIVE IndexOf(_, _, _)
IndexOf(elems, x, from) ==
    IF from > Len(elems) THEN -1
    ELSE IF StrictEquals(elems[from], x) THEN from - 1
    ELSE IndexOf(elems, x, from + 1)

\* the value a native returns and the heap it leaves; Error(...) when it throws
NativeResult(M, f, this, args) ==
    LET x == Arg(args, 1)
        same(v) == [value |-> v, heap |-> M.heap]
        cell == M.heap[this.ref]
        put(v, elems) ==
            [value |-> v,
             heap |-> [M.heap EXCEPT ![this.ref] = [kind |-> "array", elems |-> elems]]]
    IN
    CASE f.owner = "builtins" /\ f.name = "abs" ->
           LET n == ToNumber(x) IN same(IF n.t = "number" THEN Num(Abs(n.v)) ELSE NaN)
      [] f.owner = "builtins" /\ f.name \in {"floor", "ceil", "round"} ->
           LET n == ToNumber(x) IN same(IF n.t = "number" THEN n ELSE NaN)
      [] f.owner = "builtins" /\ f.name = "len" ->
           same(IF x.t = "array" THEN Num(Len(M.heap[x.ref].elems))
                ELSE IF x.t = "string" THEN Num(Len(x.v))
                ELSE Num(0))
      [] f.owner = "builtins" /\ f.name = "isArray" -> same(Bool(x.t = "array"))
      [] f.owner = "builtins" /\ f.name = "isNumber" -> same(Bool(IsNumber(x)))
      [] f.owner = "builtins" /\ f.name = "isString" -> same(Bool(x.t = "string"))
      [] f.owner = "builtins" /\ f.name = "isObject" -> same(Bool(x.t = "object"))
      [] f.owner = "builtins" /\ f.name = "isNull" -> same(Bool(IsNullish(x)))
      [] f.owner = "builtins" /\ f.name = "toNumber" -> same(ToNumber(x))
      [] f.owner = "builtins" /\ f.name = "toString"
           /\ x.t \notin {"array", "object", "function", "host"} -> same(Str(ToStr(x)))
      [] f.owner = "builtins" /\ f.name = "log" -> same(Undefined)
      [] f.owner = "Array.prototype" /\ f.name = "push" /\ this.t = "array" ->
           put(Num(Len(cell.elems) + Len(args)), cell.elems \o args)
      [] f.owner = "Array.prototype" /\ f.name = "unshift" /\ this.t = "array" ->
           put(Num(Len(cell.elems) + Len(args)), args \o cell.elems)
      [] f.owner = "Array.prototype" /\ f.name = "pop" /\ this.t = "array" ->
           IF cell.elems = << >> THEN same(Undefined)
           ELSE put(cell.elems[Len(cell.elems)], SubSeq(cell.elems, 1, Len(cell.elems) - 1))
      [] f.owner = "Array.prototype" /\ f.name = "shift" /\ this.t = "array" ->
           IF cell.elems = << >> THEN same(Undefined)
           ELSE put(cell.elems[1], Tail(cell.elems))
      [] f.owner = "Array.prototype" /\ f.name = "indexOf" /\ this.t = "array" ->
           same(Num(IndexOf(cell.elems, x, 1)))
      [] f.owner = "Array.prototype" /\ f.name = "includes" /\ this.t = "array" ->
           same(Bool(IndexOf(cell.elems, x, 1) >= 0))
      [] f.owner = "String.prototype" /\ f.name = "toString" -> same(this)
      [] f.owner = "String.prototype" /\ f.name = "concat" ->
           same(Str(this.v \o ToStr(x)))
      [] f.owner = "Number.prototype" /\ f.name = "toString" -> same(Str(ToStr(this)))
      [] f.owner = "Number.prototype" /\ f.name = "valueOf" -> same(this)
      [] f.owner = "Object.prototype" /\ f.name = "hasOwnProperty" /\ this.t = "object" ->
           same(Bool(ToStr(x) \in DOMAIN cell.props))
      [] f.owner = "Object.prototype" /\ f.name = "toString" -> same(Str("[object Object]"))
      [] f.owner = "Object.prototype" /\ f.name = "valueOf" -> same(this)
      [] f.owner = "Object.prototype" /\ f.name = "constructor" -> same(HostObject("Object()"))
      [] f.owner \notin NativeOwners -> same(Str(f.owner))

\* f.apply(this, args) for a value f
ApplyFn(M, f, this, args) ==
    IF f.t # "function" THEN Throw(M, Error("TypeError", "not a function"))
    ELSE LET r == NativeResult(M, f, this, args)
         IN  [M EXCEPT !.ctl = [m |-> "val", v |-> r.value],
                       !.heap = r.heap,
                       !.log = Append(@, [ev |-> "call", fn |-> f, args |-> args])]


(***************************************************************************)
(* The registry: validateFunction, normalizeParams, compile, and the       *)
(* closure compile returns (compiledFn).                                   *)
(***************************************************************************)
IsArray(x) == TypeOf(x) = "list"

\* a validation that does not look at the body
validateFunctionWithoutBody(name, def) ==
    IF "type" \notin DOMAIN def \/ def.type # "FUNCTION"
    THEN Error("InvalidDefinition", name)
    ELSE IF "config" \notin DOMAIN def \/ ~Truthy(def.config)
         THEN Error("InvalidDefinition", name)
    ELSE IF "params" \notin DOMAIN def.config \/ ~IsArray(def.config.params)
         THEN Error("InvalidDefinition", name)
    ELSE NullResult

\* the Error validateFunction throws for the entry, or NullResult when it passes
validateFunction(name, def) ==
    IF "type" \notin DOMAIN def \/ def.type # "FUNCTION"
    THEN Error("InvalidDefinition", name)
    ELSE IF "config" \notin DOMAIN def \/ ~Truthy(def.config)
         THEN Error("InvalidDefinition", name)
    ELSE IF "params" \notin DOMAIN def.config \/ ~IsArray(def.config.params)
         THEN Error("InvalidDefinition", name)
    ELSE IF "body" \notin DOMAIN def.config \/ ~IsArray(def.config.body)
         THEN Error("InvalidDefinition", name)
    ELSE NullResult

\* the parameter names, as the keys scope.set is given
normalizeParams(params) ==
    LET p == params.items
    IN  IF p = << >> THEN << >>
        ELSE IF TypeOf(p[1]) = "string"
             THEN [i \in DOMAIN p |->
                     IF TypeOf(p[i]) = "string" THEN p[i].v ELSE "[object Object]"]
        ELSE [i \in DOMAIN p |->
                 IF ~IsPrim(p[i]) /\ "name" \in DOMAIN p[i] THEN p[i].name ELSE "undefined"]

\* a registry whose cache keeps the first closure compiled under a name
compileKeepingFirst(M, fnName, context) ==
    LET def == MapGet(M.functionDefs, fnName)
        closure == [fnName |-> fnName, def |-> def,
                    params |-> normalizeParams(def.config.params),
                    context |-> context]
    IN  [M EXCEPT !.closures = Append(@, closure),
                  !.compiledFunctions = @ @@ (fnName :> (Len(M.closures) + 1))]

\* compile(fnName, context) once the definition is known to exist: the closure is
\* created (closures[id]) and cached under its name
compile(M, fnName, context) ==
    LET def == MapGet(M.functionDefs, fnName)
        closure == [fnName |-> fnName, def |-> def,
                    params |-> normalizeParams(def.config.params),
                    context |-> context]
        id == Len(M.closures) + 1
    IN  [M EXCEPT !.closures = Append(@, closure),
                  !.compiledFunctions = (fnName :> id) @@ @]

\* get(name): the cached closure, 0 for undefined
get(M, name) ==
    IF name \in DOMAIN M.compiledFunctions THEN M.compiledFunctions[name] ELSE 0

\* a scope in which a context variable stays when the parameter of its name
\* gets no argument
InitialScopeKeepingContext(context, params, args) ==
    LET variables == IF HasField(context, "variables") THEN context.variables ELSE EmptyMap
        bound == {params[i] : i \in DOMAIN params \cap DOMAIN args}
        names == {params[i] : i \in DOMAIN params}
        at(n) == CHOOSE i \in DOMAIN params : params[i] = n
    IN  [n \in DOMAIN variables \cup names |->
            IF n \in bound \/ n \notin DOMAIN variables THEN Arg(args, at(n))
            ELSE variables[n]]

\* the scope a call starts with: the context's variables, then params.forEach
\* scope.set(param, args[i])
InitialScope(context, params, args) ==
    LET variables == IF HasField(context, "variables") THEN context.variables ELSE EmptyMap
        names == {params[i] : i \in DOMAIN params}
        last(n) == CHOOSE i \in DOMAIN params :
                      params[i] = n /\ \A j \in DOMAIN params : params[j] = n => j <= i
    IN  [n \in DOMAIN variables \cup names |->
            IF n \in names THEN Arg(args, last(n)) ELSE variables[n]]

\* a closure that reads the context through the cache of its name and not its own
compiledFnOfCache(M, id, args) ==
    LET c == M.closures[id]
        shared == M.closures[M.compiledFunctions[c.fnName]].context
        frame == [k |-> "compiledFn", closure |-> id, args |-> args,
                  scope |-> M.scope, cur |-> M.cur]
    IN  [M EXCEPT !.kont = <<frame>> \o @,
                  !.scope = InitialScope(shared, c.params, args),
                  !.cur = id,
                  !.ctl = [m |-> "body", ss |-> c.def.config.body.items]]

\* a closure that starts from the bindings of the scope it is called in
compiledFnInCallerScope(M, id, args) ==
    LET c == M.closures[id]
        frame == [k |-> "compiledFn", closure |-> id, args |-> args,
                  scope |-> M.scope, cur |-> M.cur]
    IN  [M EXCEPT !.kont = <<frame>> \o @,
                  !.scope = InitialScope(c.context, c.params, args) @@ M.scope,
                  !.cur = id,
                  !.ctl = [m |-> "body", ss |-> c.def.config.body.items]]

\* compiledFn(...args), up to the call of executeBlock on the body
compiledFn(M, id, args) ==
    LET c == M.closures[id]
        frame == [k |-> "compiledFn", closure |-> id, args |-> args,
                  scope |-> M.scope, cur |-> M.cur]
        called == IF HasField(c.context, "onCall")
                  THEN Append(M.log, [ev |-> "onCall", fn |-> c.fnName, args |-> args])
                  ELSE M.log
    IN  [M EXCEPT !.kont = <<frame>> \o @,
                  !.scope = InitialScope(c.context, c.params, args),
                  !.cur = id,
                  !.log = called,
                  !.ctl = [m |-> "body", ss |-> c.def.config.body.items]]

\* what the host is handed: the value with the arrays and objects it refers to
RECURSIVE Snapshot(_, _)
Snapshot(h, v) ==
    CASE v.t = "array" ->
           [t |-> "array",
            elems |-> [i \in DOMAIN h[v.ref].elems |-> Snapshot(h, h[v.ref].elems[i])]]
      [] v.t = "object" ->
           [t |-> "object",
            props |-> [p \in DOMAIN h[v.ref].props |-> Snapshot(h, h[v.ref].props[p])]]
      [] v.t \notin {"array", "object"} -> v

\* a closure that tells onReturn of the host's invocations only
compiledFnReturnAtTopOnly(M, returnValue) ==
    LET frame == Head(M.kont)
        c == M.closures[frame.closure]
        returned == IF HasField(c.context, "onReturn")
                    THEN Append(M.log, [ev |-> "onReturn", fn |-> c.fnName,
                                        result |-> returnValue])
                    ELSE M.log
    IN  IF Tail(M.kont) = << >>
        THEN [M EXCEPT !.ctl = [m |-> "done", status |-> "returned",
                                value |-> Snapshot(M.heap, returnValue),
                                closure |-> frame.closure, args |-> frame.args],
                       !.kont = << >>, !.scope = EmptyMap, !.cur = 0,
                       !.heap = << >>, !.log = returned]
        ELSE [M EXCEPT !.ctl = [m |-> "val", v |-> returnValue],
                       !.kont = Tail(@), !.scope = frame.scope, !.cur = frame.cur]

\* compiledFn from the onReturn hook to its return: the closure's frame is on top
compiledFnReturn(M, returnValue) ==
    LET frame == Head(M.kont)
        c == M.closures[frame.closure]
        returned == IF HasField(c.context, "onReturn")
                    THEN Append(M.log, [ev |-> "onReturn", fn |-> c.fnName,
                                        result |-> returnValue])
                    ELSE M.log
    IN  IF Tail(M.kont) = << >>
        THEN [M EXCEPT !.ctl = [m |-> "done", status |-> "returned",
                                value |-> Snapshot(M.heap, returnValue),
                                closure |-> frame.closure, args |-> frame.args],
                       !.kont = << >>, !.scope = EmptyMap, !.cur = 0,
                       !.heap = << >>, !.log = returned]
        ELSE [M EXCEPT !.ctl = [m |-> "val", v |-> returnValue],
                       !.kont = Tail(@), !.scope = frame.scope, !.cur = frame.cur,
                       !.log = returned]

\* compiledFn after executeBlock returned result
compiledFnBody(M, result) ==
    LET def == M.closures[Head(M.kont).closure].def
    IN  IF result.__return__ THEN compiledFnReturn(M, result.value)
        ELSE IF "return" \in DOMAIN def.config /\ Truthy(def.config.return)
        THEN Eval(Replace(M, [Head(M.kont) EXCEPT !.k = "compiledFn.return"]),
                  def.config.return)
        ELSE compiledFnReturn(M, Undefined)


(***************************************************************************)
(* evalExpr.  evalExpr(M, expr) is the call: it returns at once (Ret,      *)
(* Throw) or evaluates a sub-expression first, leaving on kont what waits  *)
(* for its value; evalExprResume(M, v) is where that value arrives.        *)
(***************************************************************************)
\* a string shorthand that looks the name up in the scope and nowhere else
evalExprStringScopeOnly(M, expr) ==
    IF expr.v \in DOMAIN M.scope THEN Ret(M, M.scope[expr.v])
    ELSE Throw(M, Error("UndefinedVariable", expr.v))

\* the string shorthand: a reference to a variable
evalExprString(M, expr) ==
    LET context == Context(M)
    IN  IF expr.v \in DOMAIN M.scope THEN Ret(M, M.scope[expr.v])
        ELSE IF HasField(context, "builtins") /\ In(expr.v, context.builtins)
             THEN Ret(M, Lookup(context.builtins, expr.v))
        ELSE IF In(expr.v, M.builtins) THEN Ret(M, Lookup(M.builtins, expr.v))
        ELSE Throw(M, Error("UndefinedVariable", expr.v))

\* { ref: "name" }
evalExprRef(M, e) ==
    LET context == Context(M)
    IN  IF e.ref \in DOMAIN M.scope THEN Ret(M, M.scope[e.ref])
        ELSE IF HasField(context, "builtins") /\ In(e.ref, context.builtins)
             THEN Ret(M, Lookup(context.builtins, e.ref))
        ELSE IF In(e.ref, M.builtins) THEN Ret(M, Lookup(M.builtins, e.ref))
        ELSE Throw(M, Error("UndefinedVariable", e.ref))

\* a call that compiles every loaded callee anew, with the caller's context,
\* whether or not the compiled cache has it
evalExprCallRecompiling(M, fnName, args) ==
    LET context == Context(M)
    IN  IF HasField(context, "builtins") /\ In(fnName, context.builtins)
        THEN ApplyFn(M, Lookup(context.builtins, fnName),
                     HostObject("context.builtins"), args)
        ELSE IF In(fnName, M.builtins)
        THEN ApplyFn(M, Lookup(M.builtins, fnName), HostObject("builtins"), args)
        ELSE IF HasField(context, "functions") /\ In(fnName, context.functions)
        THEN ApplyFn(M, Lookup(context.functions, fnName),
                     HostObject("context.functions"), args)
        ELSE IF MapHas(M.functionDefs, fnName)
        THEN LET C == compile(M, fnName, context)
             IN  compiledFn(C, Len(C.closures), args)
        ELSE IF fnName \in DOMAIN M.compiledFunctions
        THEN compiledFn(M, M.compiledFunctions[fnName], args)
        ELSE Throw(M, Error("UnknownFunction", fnName))

\* a call that compiles a loaded callee for this call only, the compiled cache
\* staying as it was
evalExprCallUncached(M, fnName, args) ==
    LET context == Context(M)
    IN  IF HasField(context, "builtins") /\ In(fnName, context.builtins)
        THEN ApplyFn(M, Lookup(context.builtins, fnName),
                     HostObject("context.builtins"), args)
        ELSE IF In(fnName, M.builtins)
        THEN ApplyFn(M, Lookup(M.builtins, fnName), HostObject("builtins"), args)
        ELSE IF HasField(context, "functions") /\ In(fnName, context.functions)
        THEN ApplyFn(M, Lookup(context.functions, fnName),
                     HostObject("context.functions"), args)
        ELSE IF fnName \in DOMAIN M.compiledFunctions
        THEN compiledFn(M, M.compiledFunctions[fnName], args)
        ELSE IF MapHas(M.functionDefs, fnName)
        THEN LET C == compile(M, fnName, context)
             IN  compiledFn([C EXCEPT !.compiledFunctions = M.compiledFunctions],
                            Len(C.closures), args)
        ELSE Throw(M, Error("UnknownFunction", fnName))

\* { call: fnName } once args are evaluated: the five places a name is looked up in
evalExprCall(M, fnName, args) ==
    LET context == Context(M)
    IN  IF HasField(context, "builtins") /\ In(fnName, context.builtins)
        THEN ApplyFn(M, Lookup(context.builtins, fnName),
                     HostObject("context.builtins"), args)
        ELSE IF In(fnName, M.builtins)
        THEN ApplyFn(M, Lookup(M.builtins, fnName), HostObject("builtins"), args)
        ELSE IF HasField(context, "functions") /\ In(fnName, context.functions)
        THEN ApplyFn(M, Lookup(context.functions, fnName),
                     HostObject("context.functions"), args)
        ELSE IF fnName \in DOMAIN M.compiledFunctions
        THEN compiledFn(M, M.compiledFunctions[fnName], args)
        ELSE IF MapHas(M.functionDefs, fnName)
        THEN LET C == compile(M, fnName, context)
             IN  compiledFn(C, Len(C.closures), args)
        ELSE Throw(M, Error("UnknownFunction", fnName))

\* an evaluator that keeps one result object for all object constructions: the
\* properties of the object built before stay in the next one
MapNextKeepingResult(M, item, list) ==
    IF Len(item.done) < Len(list)
    THEN Eval(Push(M, item),
              IF item.k = "properties" THEN list[Len(item.done) + 1][2]
              ELSE list[Len(item.done) + 1])
    ELSE CASE item.k = "call.arguments" -> evalExprCall(M, item.e.call, item.done)
           [] item.k = "method.arguments" -> ApplyFn(M, item.method, item.obj, item.done)
           [] item.k = "elements" ->
                [M EXCEPT !.heap = Append(@, [kind |-> "array", elems |-> item.done]),
                          !.ctl = [m |-> "val", v |-> ArrRef(Len(M.heap) + 1)]]
           [] item.k = "properties" ->
                [M EXCEPT !.heap = Append(@,
                              [kind |-> "object",
                               props |-> [p \in {list[i][1] : i \in DOMAIN list} |->
                                            item.done[CHOOSE i \in DOMAIN list :
                                               /\ list[i][1] = p
                                               /\ \A j \in DOMAIN list :
                                                    list[j][1] = p => j <= i]]
                                         @@ (LET objects == {r \in DOMAIN M.heap :
                                                               M.heap[r].kind = "object"}
                                             IN  IF objects = {} THEN EmptyMap
                                                 ELSE M.heap[CHOOSE r \in objects :
                                                        \A q \in objects : q <= r].props)]),
                          !.ctl = [m |-> "val", v |-> ObjRef(Len(M.heap) + 1)]]

\* (list).map((a) => this.evalExpr(a, ...)): evaluate the next element, or go on
\* with all of them; item is the waiting construct, item.done the values so far
MapNext(M, item, list) ==
    IF Len(item.done) < Len(list)
    THEN Eval(Push(M, item),
              IF item.k = "properties" THEN list[Len(item.done) + 1][2]
              ELSE list[Len(item.done) + 1])
    ELSE CASE item.k = "call.arguments" -> evalExprCall(M, item.e.call, item.done)
           [] item.k = "method.arguments" -> ApplyFn(M, item.method, item.obj, item.done)
           [] item.k = "elements" ->
                [M EXCEPT !.heap = Append(@, [kind |-> "array", elems |-> item.done]),
                          !.ctl = [m |-> "val", v |-> ArrRef(Len(M.heap) + 1)]]
           [] item.k = "properties" ->
                [M EXCEPT !.heap = Append(@,
                              [kind |-> "object",
                               props |-> [p \in {list[i][1] : i \in DOMAIN list} |->
                                            item.done[CHOOSE i \in DOMAIN list :
                                               /\ list[i][1] = p
                                               /\ \A j \in DOMAIN list :
                                                    list[j][1] = p => j <= i]]]),
                          !.ctl = [m |-> "val", v |-> ObjRef(Len(M.heap) + 1)]]

evalExpr(M, expr) ==
    IF TypeOf(expr) \in {"null", "undefined"} THEN Ret(M, Null)
    ELSE IF TypeOf(expr) = "string" THEN evalExprString(M, expr)
    ELSE IF TypeOf(expr) \in {"number", "boolean"} THEN Ret(M, expr)
    ELSE IF "literal" \in DOMAIN expr THEN Ret(M, expr.literal)
    ELSE IF "ref" \in DOMAIN expr THEN evalExprRef(M, expr)
    ELSE IF {"operator", "left", "right"} \subseteq DOMAIN expr
         THEN Eval(Push(M, [k |-> "left", e |-> expr]), expr.left)
    ELSE IF {"operator", "argument"} \subseteq DOMAIN expr
         THEN Eval(Push(M, [k |-> "argument", e |-> expr]), expr.argument)
    ELSE IF {"object", "property"} \subseteq DOMAIN expr
         THEN Eval(Push(M, [k |-> "member.object", e |-> expr]), expr.object)
    ELSE IF {"object", "index"} \subseteq DOMAIN expr
         THEN Eval(Push(M, [k |-> "index.object", e |-> expr]), expr.object)
    ELSE IF "call" \in DOMAIN expr
         THEN MapNext(M, [k |-> "call.arguments", e |-> expr, done |-> << >>],
                      IF "arguments" \in DOMAIN expr THEN expr.arguments ELSE << >>)
    ELSE IF "method" \in DOMAIN expr
         THEN Eval(Push(M, [k |-> "method.object", e |-> expr]), expr.object)
    ELSE IF {"condition", "then", "else"} \subseteq DOMAIN expr
         THEN Eval(Push(M, [k |-> "condition", e |-> expr]), expr.condition)
    ELSE IF "properties" \in DOMAIN expr
         THEN MapNext(M, [k |-> "properties", e |-> expr, done |-> << >>],
                      expr.properties)
    ELSE IF "elements" \in DOMAIN expr
         THEN MapNext(M, [k |-> "elements", e |-> expr, done |-> << >>], expr.elements)
    ELSE Throw(M, Error("UnknownNodeShape", "expression"))


Arguments(e) == IF "arguments" \in DOMAIN e THEN e.arguments ELSE << >>

\* a method call that looks at the receiver before it looks at the whitelist
evalExprMethodReceiverFirst(M, e, obj) ==
    IF IsNullish(obj) THEN Throw(M, Error("NullReceiver", e.method))
    ELSE IF e.method \notin allowedMethods
    THEN Throw(M, Error("MethodNotAllowed", e.method))
    ELSE LET method == GetProperty(M.heap, obj, e.method)
         IN  IF method.t # "function" THEN Ret(M, method)
             ELSE MapNext(M, [k |-> "method.arguments", e |-> e, obj |-> obj,
                              method |-> method, done |-> << >>],
                          Arguments(e))

\* a method call that gives undefined on a null or undefined receiver, as
\* member and index access do
evalExprMethodNullPropagating(M, e, obj) ==
    IF e.method \notin allowedMethods THEN Throw(M, Error("MethodNotAllowed", e.method))
    ELSE IF IsNullish(obj) THEN Ret(M, Undefined)
    ELSE LET method == GetProperty(M.heap, obj, e.method)
         IN  IF method.t # "function" THEN Ret(M, method)
             ELSE MapNext(M, [k |-> "method.arguments", e |-> e, obj |-> obj,
                              method |-> method, done |-> << >>],
                          Arguments(e))

\* a method call that evaluates the arguments and invokes whatever the
\* property is, callable or not
evalExprMethodAlwaysInvoking(M, e, obj) ==
    IF e.method \notin allowedMethods THEN Throw(M, Error("MethodNotAllowed", e.method))
    ELSE IF IsNullish(obj) THEN Throw(M, Error("NullReceiver", e.method))
    ELSE MapNext(M, [k |-> "method.arguments", e |-> e, obj |-> obj,
                     method |-> GetProperty(M.heap, obj, e.method), done |-> << >>],
                 Arguments(e))

\* { method, object, arguments } once the receiver is evaluated
evalExprMethod(M, e, obj) ==
    IF e.method \notin allowedMethods THEN Throw(M, Error("MethodNotAllowed", e.method))
    ELSE IF IsNullish(obj) THEN Throw(M, Error("NullReceiver", e.method))
    ELSE LET method == GetProperty(M.heap, obj, e.method)
         IN  IF method.t # "function" THEN Ret(M, method)
             ELSE MapNext(M, [k |-> "method.arguments", e |-> e, obj |-> obj,
                              method |-> method, done |-> << >>],
                          Arguments(e))

\* a value or the Error of an operator: return it or throw it
RetOrThrow(M, r) == IF "error" \in DOMAIN r THEN Throw(M, r) ELSE Ret(M, r)

\* the value v of a sub-expression arrives at the expression that waits on top of kont
evalExprResume(M, v) ==
    LET item == Head(M.kont)
        e == item.e
        P == Pop(M)
    IN  CASE item.k = "left" -> Eval(Replace(M, [k |-> "right", e |-> e, left |-> v]), e.right)
          [] item.k = "right" -> RetOrThrow(P, evalBinaryOp(e.operator, item.left, v))
          [] item.k = "argument" -> RetOrThrow(P, evalUnaryOp(e.operator, v))
          [] item.k = "member.object" ->
               IF IsNullish(v) THEN Ret(P, Undefined)
               ELSE Ret(P, GetProperty(M.heap, v, e.property))
          [] item.k = "index.object" ->
               Eval(Replace(M, [k |-> "index.index", e |-> e, obj |-> v]), e.index)
          [] item.k = "index.index" ->
               IF IsNullish(item.obj) THEN Ret(P, Undefined)
               ELSE Ret(P, GetIndex(M.heap, item.obj, v))
          [] item.k = "call.arguments" ->
               MapNext(P, [item EXCEPT !.done = Append(@, v)], Arguments(e))
          [] item.k = "method.object" -> evalExprMethod(P, e, v)
          [] item.k = "method.arguments" ->
               MapNext(P, [item EXCEPT !.done = Append(@, v)], Arguments(e))
          [] item.k = "condition" -> Eval(P, IF Truthy(v) THEN e.then ELSE e.else)
          [] item.k = "properties" ->
               MapNext(P, [item EXCEPT !.done = Append(@, v)], e.properties)
          [] item.k = "elements" ->
               MapNext(P, [item EXCEPT !.done = Append(@, v)], e.elements)

(***************************************************************************)
(* executeBlock and executeStmt, in the same way: the call, the arrival of *)
(* an expression's value, the arrival of a block's result.                 *)
(***************************************************************************)
\* for (const stmt of statements): the next statement, or return null
executeBlock(M, statements) ==
    IF statements = << >> THEN Sig(M, NullResult)
    ELSE Exec(Push(M, [k |-> "executeBlock", rest |-> Tail(statements)]),
              Head(statements))

\* a block that goes on with its next statement whatever the result was
executeBlockRunningOn(M, result) == executeBlock(Pop(M), Head(M.kont).rest)

\* executeBlock after executeStmt returned result
executeBlockResult(M, result) ==
    IF result.__return__ THEN Sig(Pop(M), result)
    ELSE executeBlock(Pop(M), Head(M.kont).rest)

\* a set that also takes a name the builtin table resolves
executeStmtSetResolving(M, stmt) ==
    IF "let" \in DOMAIN stmt THEN Eval(Push(M, [k |-> "let", s |-> stmt]), stmt.value)
    ELSE IF "set" \in DOMAIN stmt
         THEN IF stmt.set \notin DOMAIN M.scope /\ ~In(stmt.set, M.builtins)
              THEN Throw(M, Error("UnboundAssignment", stmt.set))
              ELSE Eval(Push(M, [k |-> "set", s |-> stmt]), stmt.value)
    ELSE IF "if" \in DOMAIN stmt THEN Eval(Push(M, [k |-> "if", s |-> stmt]), stmt.if)
    ELSE IF "for" \in DOMAIN stmt THEN Eval(Push(M, [k |-> "in", s |-> stmt]), stmt.in)
    ELSE IF "while" \in DOMAIN stmt
         THEN Eval(Push(M, [k |-> "while", s |-> stmt, iterations |-> 0]), stmt.while)
    ELSE IF "return" \in DOMAIN stmt
         THEN Eval(Push(M, [k |-> "return", s |-> stmt]), stmt.return)
    ELSE Throw(M, Error("UnknownNodeShape", "statement"))

\* executeStmt, up to the first expression the statement evaluates
executeStmt(M, stmt) ==
    IF "let" \in DOMAIN stmt THEN Eval(Push(M, [k |-> "let", s |-> stmt]), stmt.value)
    ELSE IF "set" \in DOMAIN stmt
         THEN IF stmt.set \notin DOMAIN M.scope
              THEN Throw(M, Error("UnboundAssignment", stmt.set))
              ELSE Eval(Push(M, [k |-> "set", s |-> stmt]), stmt.value)
    ELSE IF "if" \in DOMAIN stmt THEN Eval(Push(M, [k |-> "if", s |-> stmt]), stmt.if)
    ELSE IF "for" \in DOMAIN stmt THEN Eval(Push(M, [k |-> "in", s |-> stmt]), stmt.in)
    ELSE IF "while" \in DOMAIN stmt
         THEN Eval(Push(M, [k |-> "while", s |-> stmt, iterations |-> 0]), stmt.while)
    ELSE IF "return" \in DOMAIN stmt
         THEN Eval(Push(M, [k |-> "return", s |-> stmt]), stmt.return)
    ELSE Throw(M, Error("UnknownNodeShape", "statement"))

\* the elements a for..of takes from an iterable, read at each step (an array's
\* iterator looks at the array as it is then)
Elements(h, iterable) ==
    IF iterable.t = "array" THEN h[iterable.ref].elems
    ELSE [i \in DOMAIN Chars(iterable.v) |-> Str(Chars(iterable.v)[i])]

\* a for whose variable is gone from the scope once the loop has ended
ForNextDroppingVariable(M) ==
    LET item == Head(M.kont)
        elems == Elements(M.heap, item.iterable)
        body == IF "do" \in DOMAIN item.s THEN item.s.do ELSE << >>
    IN  IF item.next > Len(elems)
        THEN Sig([Pop(M) EXCEPT !.scope = [n \in DOMAIN @ \ {item.s.for} |-> @[n]]],
                 NullResult)
        ELSE executeBlock([Replace(M, [item EXCEPT !.next = @ + 1])
                             EXCEPT !.scope = (item.s.for :> elems[item.next]) @@ @],
                          body)

\* for (const item of iterable): the next element, or return null; the for
\* statement's item is on top of kont
ForNext(M) ==
    LET item == Head(M.kont)
        elems == Elements(M.heap, item.iterable)
        body == IF "do" \in DOMAIN item.s THEN item.s.do ELSE << >>
    IN  IF item.next > Len(elems) THEN Sig(Pop(M), NullResult)
        ELSE executeBlock([Replace(M, [item EXCEPT !.next = @ + 1])
                             EXCEPT !.scope = (item.s.for :> elems[item.next]) @@ @],
                          body)


\* while (guard) once the guard's value v arrived, in compiler.ts
executeStmtWhile(M, v) ==
    LET item == Head(M.kont)
        body == IF "do" \in DOMAIN item.s THEN item.s.do ELSE << >>
    IN  IF Truthy(v) THEN executeBlock(Replace(M, [item EXCEPT !.k = "do"]), body)
        ELSE Sig(Pop(M), NullResult)

\* the same in dist/compiler.js: iterations counts the truthy guards of this loop
executeStmtWhileDist(M, v) ==
    LET item == Head(M.kont)
        body == IF "do" \in DOMAIN item.s THEN item.s.do ELSE << >>
    IN  IF Truthy(v)
        THEN IF item.iterations + 1 > maxIterations
             THEN Throw(M, Error("LoopLimitExceeded", "while"))
             ELSE executeBlock(Replace(M, [item EXCEPT !.k = "do", !.iterations = @ + 1]),
                               body)
        ELSE Sig(Pop(M), NullResult)

\* statements whose set writes the value into the context's variables too, when
\* the context has the name
executeStmtResumeWritingContext(M, v) ==
    LET item == Head(M.kont)
        s == item.s
        P == Pop(M)
        context == M.closures[M.cur].context
    IN  CASE item.k = "let" -> Sig([P EXCEPT !.scope = (s.let :> v) @@ @], NullResult)
          [] item.k = "set" ->
               IF HasField(context, "variables") /\ s.set \in DOMAIN context.variables
               THEN Sig([P EXCEPT !.scope = (s.set :> v) @@ @,
                                  !.closures[M.cur].context.variables[s.set] = v],
                        NullResult)
               ELSE Sig([P EXCEPT !.scope = (s.set :> v) @@ @], NullResult)
          [] item.k = "if" ->
               IF Truthy(v) THEN executeBlock(P, IF "then" \in DOMAIN s THEN s.then ELSE << >>)
               ELSE IF "else" \in DOMAIN s THEN executeBlock(P, s.else)
               ELSE Sig(P, NullResult)
          [] item.k = "in" ->
               IF ~Truthy(v) \/ ~IsIterable(v) THEN Throw(M, Error("NotIterable", "for"))
               ELSE ForNext(Replace(M, [k |-> "for", s |-> s, iterable |-> v, next |-> 1]))
          [] item.k = "while" ->
               IF M.build = "dist" THEN executeStmtWhileDist(M, v)
               ELSE executeStmtWhile(M, v)
          [] item.k = "return" -> Sig(P, ReturnValue(v))

\* the value v of a statement's expression arrives at the statement on top of kont
executeStmtResume(M, v) ==
    LET item == Head(M.kont)
        s == item.s
        P == Pop(M)
    IN  CASE item.k \in {"let", "set"} ->
               Sig([P EXCEPT !.scope = ((IF item.k = "let" THEN s.let ELSE s.set) :> v) @@ @],
                   NullResult)
          [] item.k = "if" ->
               IF Truthy(v) THEN executeBlock(P, IF "then" \in DOMAIN s THEN s.then ELSE << >>)
               ELSE IF "else" \in DOMAIN s THEN executeBlock(P, s.else)
               ELSE Sig(P, NullResult)
          [] item.k = "in" ->
               IF ~Truthy(v) \/ ~IsIterable(v) THEN Throw(M, Error("NotIterable", "for"))
               ELSE ForNext(Replace(M, [k |-> "for", s |-> s, iterable |-> v, next |-> 1]))
          [] item.k = "while" ->
               IF M.build = "dist" THEN executeStmtWhileDist(M, v)
               ELSE executeStmtWhile(M, v)
          [] item.k = "return" -> Sig(P, ReturnValue(v))

\* the result of a block arrives at the statement on top of kont
executeStmtResult(M, result) ==
    LET item == Head(M.kont)
    IN  CASE item.k = "for" -> IF result.__return__ THEN Sig(Pop(M), result) ELSE ForNext(M)
          [] item.k = "do" ->
               IF result.__return__ THEN Sig(Pop(M), result)
               ELSE Eval(Replace(M, [item EXCEPT !.k = "while"]), item.s.while)

ExprItems ==
    {"left", "right", "argument", "member.object", "index.object", "index.index",
     "call.arguments", "method.object", "method.arguments", "condition",
     "properties", "elements"}
StmtItems == {"let", "set", "if", "in", "while", "return"}

\* one step of the evaluator
Step(M) ==
    CASE M.ctl.m = "body" -> executeBlock(M, M.ctl.ss)
      [] M.ctl.m = "expr" -> evalExpr(M, M.ctl.e)
      [] M.ctl.m = "stmt" -> executeStmt(M, M.ctl.s)
      [] M.ctl.m = "val" /\ Head(M.kont).k \in ExprItems -> evalExprResume(M, M.ctl.v)
      [] M.ctl.m = "val" /\ Head(M.kont).k \in StmtItems -> executeStmtResume(M, M.ctl.v)
      [] M.ctl.m = "val" /\ Head(M.kont).k = "compiledFn.return" ->
           compiledFnReturn(M, M.ctl.v)
      [] M.ctl.m = "sig" /\ Head(M.kont).k = "executeBlock" ->
           executeBlockResult(M, M.ctl.r)
      [] M.ctl.m = "sig" /\ Head(M.kont).k \in {"for", "do"} ->
           executeStmtResult(M, M.ctl.r)
      [] M.ctl.m = "sig" /\ Head(M.kont).k = "compiledFn" -> compiledFnBody(M, M.ctl.r)


(***************************************************************************)
(* The host application.  What it has in hand is one of Scenarios: the     *)
(* documents it may load, the contexts it may compile with, the names it   *)
(* may add a builtin under, and the arguments it may call each function    *)
(* with.  host is the index of its scenario.                               *)
(***************************************************************************)
\* an entry of a document's "functions" object
Entry(name, def) == [key |-> name, value |-> def]

\* the closures compile and compileAll may create for the host
MaxClosures == 2

\* an array and a plain object as the host writes them
Array(elems) == [t |-> "array", elems |-> elems]
Object(props) == [t |-> "object", props |-> props]

Scenario(name, documents, contexts, additions, args) ==
    [name |-> name, documents |-> documents, contexts |-> contexts,
     additions |-> additions, args |-> args]

\* a return at depth: inside an if, inside a while, inside a for
ScenarioControl ==
    Scenario("control",
      << <<Entry("find",
            FunctionDefReturn("FUNCTION", <<Str("xs"), Str("n")>>,
              <<ForStmt("x", RefExpr("xs"),
                  <<WhileStmt(BinaryExpr(">", RefExpr("n"), LiteralExpr(Num(0))),
                      <<IfStmt(BinaryExpr("===", RefExpr("x"), RefExpr("n")),
                               <<ReturnStmt(RefExpr("x"))>>),
                        SetStmt("n", BinaryExpr("-", RefExpr("n"), LiteralExpr(Num(1))))>>),
                    LetStmt("n", LiteralExpr(Num(2)))>>)>>,
              LiteralExpr(Str("none"))))>> >>,
      <<Undefined>>,
      << >>,
      [find |-> << <<Array(<<Num(3), Num(1)>>), Num(2)>>,
                   <<Array(<<Num(2)>>), Num(2)>>,
                   <<Array(<< >>), Num(1)>> >>])

\* a method outside the whitelist, and one inside it, on every kind of receiver
ScenarioMethods ==
    Scenario("methods",
      << <<Entry("escape",
            FunctionDefReturn("FUNCTION", <<Str("x")>>, << >>,
              MethodExpr("constructor", RefExpr("x"), << >>))),
           Entry("size",
            FunctionDefReturn("FUNCTION", <<Str("x")>>, << >>,
              MethodExpr("length", RefExpr("x"), << >>))),
           Entry("field",
            FunctionDefReturn("FUNCTION", <<Str("x")>>, << >>,
              MemberExpr(RefExpr("x"), "a"))),
           Entry("at",
            FunctionDefReturn("FUNCTION", <<Str("x"), Str("i")>>, << >>,
              IndexExpr(RefExpr("x"), RefExpr("i"))))>> >>,
      <<Undefined>>,
      << >>,
      LET receivers == << << >>, <<Null>>, <<Num(1)>>, <<Str("a")>>,
                          <<Array(<<Num(1)>>)>>, <<Object([a |-> Num(1)])>> >>
      IN  [escape |-> receivers, size |-> receivers,
           field |-> << << >>, <<Null>>, <<Object([a |-> Num(1)])>> >>,
           at |-> << << >>, <<Null, Num(0)>>, <<Array(<<Num(1)>>), Num(0)>> >>])

\* a function-call node naming n, with n at every place a name is looked up in
ScenarioCall(n, documents, contexts, additions) ==
    Scenario("call", documents, contexts, additions,
             ("caller" :> << << >> >>) @@ (n :> << << >> >>))
Caller(n) == Entry("caller", FunctionDefReturn("FUNCTION", << >>, << >>, CallExpr(n, << >>)))
Callee(n) == Entry(n, FunctionDefReturn("FUNCTION", << >>, << >>, LiteralExpr(Str("loaded"))))
WithBuiltin(n) == [builtins |-> (n :> Fn("context.builtins", n))]
WithFunction(n) == [functions |-> (n :> Fn("context.functions", n))]

\* a variable reference to n, written in full (reader) and as the shorthand
\* (short); n is bound in the scope when x is truthy, to the value of y
ScenarioRef(n, contexts, additions) ==
    LET body == <<IfStmt(RefExpr("x"), <<LetStmt(n, RefExpr("y"))>>)>>
        args == << << >>, <<Bool(TRUE)>>, <<Bool(TRUE), Num(7)>> >>
    IN  Scenario("ref",
          << <<Entry("reader",
                FunctionDefReturn("FUNCTION", <<Str("x"), Str("y")>>, body, RefExpr(n))),
               Entry("short",
                FunctionDefReturn("FUNCTION", <<Str("x"), Str("y")>>, body, Str(n)))>> >>,
          contexts, additions, [reader |-> args, short |-> args])

\* the trailing return expression in its forms, after a body that returns nothing
ScenarioTrailing ==
    LET def(ret) == FunctionDefReturn("FUNCTION", <<Str("x")>>, << >>, ret)
    IN  Scenario("trailing",
          << <<Entry("zero", def(Num(0))),
               Entry("no", def(Bool(FALSE))),
               Entry("literal", def(LiteralExpr(Num(0)))),
               Entry("param", def(RefExpr("x"))),
               Entry("nothing", FunctionDef("FUNCTION", <<Str("x")>>, << >>))>> >>,
          <<Undefined>>,
          << >>,
          [f \in {"zero", "no", "literal", "param", "nothing"} |-> << <<Num(5)>> >>])

\* && and || with a right operand that calls a host-supplied builtin, or throws
ScenarioLogic ==
    LET def(op, right) ==
            FunctionDefReturn("FUNCTION", <<Str("a")>>, << >>,
                              BinaryExpr(op, RefExpr("a"), right))
        args == << <<Num(0)>>, <<Num(1)>> >>
    IN  Scenario("logic",
          << <<Entry("both", def("&&", CallExpr("probe", << >>))),
               Entry("either", def("||", CallExpr("probe", << >>))),
               Entry("guarded", def("&&", RefExpr("missing")))>> >>,
          <<WithBuiltin("probe")>>,
          << >>,
          [both |-> args, either |-> args, guarded |-> args])

\* one function compiled under two contexts (demo.ts: calculatePrice), and a
\* function that calls itself
ContextUS == [variables |-> [taxRate |-> Num(8)]]
ContextEU == [variables |-> [taxRate |-> Num(20)]]
ScenarioPrice ==
    Scenario("price",
      << <<Entry("calculatePrice",
            FunctionDefReturn("FUNCTION", <<Str("basePrice")>>,
              <<LetStmt("priceWithTax",
                  BinaryExpr("*", RefExpr("basePrice"),
                             BinaryExpr("+", LiteralExpr(Num(100)), RefExpr("taxRate"))))>>,
              RefExpr("priceWithTax"))),
           Entry("rate",
            FunctionDef("FUNCTION", <<Str("n")>>,
              <<IfStmt(BinaryExpr("<=", RefExpr("n"), LiteralExpr(Num(0))),
                       <<ReturnStmt(RefExpr("taxRate"))>>),
                ReturnStmt(CallExpr("rate",
                    <<BinaryExpr("-", RefExpr("n"), LiteralExpr(Num(1)))>>))>>))>> >>,
      <<ContextUS, ContextEU>>,
      << >>,
      [calculatePrice |-> << <<Num(100)>> >>, rate |-> << <<Num(0)>>, <<Num(1)>> >>])

\* a closure whose context has variables, one of them named as a parameter,
\* called with too few and too many arguments
ScenarioSeed ==
    Scenario("seed",
      << <<Entry("show",
            FunctionDefReturn("FUNCTION", <<Str("a"), Str("b")>>, << >>,
              ArrayExpr(<<RefExpr("a"), RefExpr("b"), RefExpr("c")>>))),
           Entry("tick",
            FunctionDefReturn("FUNCTION", << >>,
              <<SetStmt("c", BinaryExpr("+", RefExpr("c"), LiteralExpr(Num(1)))),
                LetStmt("a", RefExpr("c"))>>,
              ArrayExpr(<<RefExpr("a"), RefExpr("c")>>)))>> >>,
      <<[variables |-> [a |-> Num(10), c |-> Num(30)]]>>,
      << >>,
      [show |-> << << >>, <<Num(1)>>, <<Num(1), Num(2), Num(3)>> >>,
       tick |-> << << >> >>])

\* bindings made inside blocks and read after them (demo.ts: sumArray)
ScenarioFlat ==
    Scenario("flat",
      << <<Entry("sumArray",
            FunctionDefReturn("FUNCTION", <<Str("items")>>,
              <<LetStmt("total", LiteralExpr(Num(0))),
                ForStmt("item", RefExpr("items"),
                  <<SetStmt("total",
                      BinaryExpr("+", RefExpr("total"), RefExpr("item")))>>)>>,
              ArrayExpr(<<RefExpr("total"), RefExpr("item")>>))),
           Entry("redeclare",
            FunctionDefReturn("FUNCTION", << >>,
              <<LetStmt("v", LiteralExpr(Num(1))),
                IfStmt(LiteralExpr(Bool(TRUE)), <<LetStmt("v", LiteralExpr(Num(2)))>>),
                LetStmt("k", LiteralExpr(Num(1))),
                WhileStmt(RefExpr("k"),
                  <<LetStmt("inner", LiteralExpr(Num(5))),
                    SetStmt("k", LiteralExpr(Num(0)))>>)>>,
              ArrayExpr(<<RefExpr("v"), RefExpr("inner"), RefExpr("k")>>)))>> >>,
      <<Undefined>>,
      << >>,
      [sumArray |-> << <<Array(<<Num(1), Num(2), Num(3), Num(4), Num(5)>>)>> >>,
       redeclare |-> << << >> >>])

\* functions that bind a name and call one another, and one that calls itself
ScenarioOwn ==
    Scenario("own",
      << <<Entry("leak",
            FunctionDefReturn("FUNCTION", <<Str("flag")>>,
              <<IfStmt(RefExpr("flag"), <<LetStmt("secret", LiteralExpr(Num(1)))>>)>>,
              RefExpr("secret"))),
           Entry("spy",
            FunctionDefReturn("FUNCTION", << >>,
              <<LetStmt("secret", LiteralExpr(Num(7)))>>,
              CallExpr("leak", <<LiteralExpr(Bool(FALSE))>>))),
           Entry("outer",
            FunctionDefReturn("FUNCTION", << >>,
              <<LetStmt("secret", LiteralExpr(Num(7))),
                LetStmt("r", CallExpr("leak", <<LiteralExpr(Bool(TRUE))>>))>>,
              ArrayExpr(<<RefExpr("secret"), RefExpr("r")>>))),
           Entry("down",
            FunctionDefReturn("FUNCTION", <<Str("n")>>,
              <<IfStmt(BinaryExpr(">", RefExpr("n"), LiteralExpr(Num(0))),
                  <<LetStmt("mark", RefExpr("n")),
                    LetStmt("r", CallExpr("down",
                        <<BinaryExpr("-", RefExpr("n"), LiteralExpr(Num(1)))>>)),
                    ReturnStmt(ArrayExpr(<<RefExpr("mark"), RefExpr("r")>>))>>)>>,
              LiteralExpr(Num(0))))>> >>,
      <<Undefined>>,
      << >>,
      [leak |-> << <<Bool(TRUE)>>, <<Bool(FALSE)>> >>,
       spy |-> << << >> >>, outer |-> << << >> >>, down |-> << <<Num(2)>> >>])

\* assignments to a bound name, and to a name that only the builtin table has
ScenarioAssign ==
    Scenario("assign",
      << <<Entry("bump",
            FunctionDefReturn("FUNCTION", <<Str("x")>>,
              <<LetStmt("y", LiteralExpr(Num(5))),
                SetStmt("x", BinaryExpr("+", RefExpr("x"), LiteralExpr(Num(1))))>>,
              ArrayExpr(<<RefExpr("x"), RefExpr("y")>>))),
           Entry("stray",
            FunctionDefReturn("FUNCTION", << >>,
              <<LetStmt("y", CallExpr("abs", <<LiteralExpr(Num(5))>>)),
                SetStmt("abs", CallExpr("abs", <<LiteralExpr(Num(1))>>))>>,
              RefExpr("abs")))>> >>,
      <<Undefined>>,
      << >>,
      [bump |-> << <<Num(1)>> >>, stray |-> << << >> >>])

\* closures compiled with hooks: a result from the trailing return, one from a
\* return statement, and a call of one closure by another
ContextHooks ==
    [onCall |-> Fn("context", "onCall"), onReturn |-> Fn("context", "onReturn")]
ContextOnCall == [onCall |-> Fn("context", "onCall")]
ScenarioHooks ==
    Scenario("hooks",
      << <<Entry("twice",
            FunctionDefReturn("FUNCTION", <<Str("x")>>, << >>,
              BinaryExpr("*", RefExpr("x"), LiteralExpr(Num(2))))),
           Entry("pick",
            FunctionDefReturn("FUNCTION", <<Str("x")>>,
              <<IfStmt(RefExpr("x"),
                  <<ReturnStmt(CallExpr("abs", <<RefExpr("x")>>))>>)>>,
              LiteralExpr(Num(0)))),
           Entry("both",
            FunctionDefReturn("FUNCTION", <<Str("x")>>,
              <<LetStmt("a", CallExpr("twice", <<RefExpr("x")>>))>>,
              BinaryExpr("+", RefExpr("a"), LiteralExpr(Num(1)))))>> >>,
      <<ContextHooks, ContextOnCall>>,
      << >>,
      [twice |-> << <<Num(3)>> >>, pick |-> << <<Num(3)>>, <<Num(0)>> >>,
       both |-> << <<Num(3), Num(4)>> >>])

\* documents with entries of every shape validateFunction looks at, and the
\* document of the demo (demo.ts: add)
Sum(a, b) == BinaryExpr("+", RefExpr(a), RefExpr(b))
ScenarioShapes ==
    LET good == FunctionDefReturn("FUNCTION", <<Str("a"), Str("b")>>, << >>, Sum("a", "b"))
        body == List(<< >>)
        params == List(<<Str("a")>>)
    IN  Scenario("shapes",
          << <<Entry("add",
                 FunctionDefReturn("CALLBACK", <<Str("a"), Str("b")>>, << >>,
                                   Sum("a", "b")))>>,
             <<Entry("ok", good),
               Entry("noConfig", [type |-> "FUNCTION"]),
               Entry("late", good)>>,
             <<Entry("nullConfig", [type |-> "FUNCTION", config |-> Null])>>,
             <<Entry("noType", [config |-> [params |-> params, body |-> body]])>>,
             <<Entry("noParams", [type |-> "FUNCTION", config |-> [body |-> body]])>>,
             <<Entry("namedParams",
                 [type |-> "FUNCTION",
                  config |-> [params |-> [a |-> Str("a")], body |-> body]])>>,
             <<Entry("noBody", [type |-> "FUNCTION", config |-> [params |-> params]])>>,
             <<Entry("textBody",
                 [type |-> "FUNCTION",
                  config |-> [params |-> params, body |-> Str("return a")]])>> >>,
          <<Undefined>>,
          << >>,
          [n \in {"add", "ok", "noConfig", "late", "nullConfig", "noType", "noParams",
                  "namedParams", "noBody", "textBody"} |-> << <<Num(2), Num(3)>> >>])

\* two documents that define the same name differently
ScenarioReload ==
    Scenario("reload",
      << <<Entry("f", FunctionDefReturn("FUNCTION", << >>, << >>, LiteralExpr(Num(1)))),
           Entry("g", FunctionDefReturn("FUNCTION", << >>, << >>, LiteralExpr(Num(10))))>>,
         <<Entry("f", FunctionDefReturn("FUNCTION", << >>, << >>, LiteralExpr(Num(2))))>> >>,
      <<Undefined>>,
      << >>,
      [f |-> << << >> >>, g |-> << << >> >>])

\* closures with hooks: one raises in the middle of its body, one calls it
ScenarioFails ==
    LET probe(n) == CallExpr("abs", <<LiteralExpr(Num(n))>>)
    IN  Scenario("fails",
          << <<Entry("crash",
                FunctionDefReturn("FUNCTION", <<Str("x")>>,
                  <<LetStmt("a", probe(1)),
                    LetStmt("b", RefExpr("missing")),
                    LetStmt("c", probe(2))>>,
                  probe(3))),
               Entry("wrap",
                FunctionDefReturn("FUNCTION", << >>,
                  <<LetStmt("r", CallExpr("crash", <<LiteralExpr(Num(0))>>)),
                    LetStmt("d", probe(4))>>,
                  probe(5)))>> >>,
          <<ContextHooks>>,
          << >>,
          [crash |-> << <<Num(0)>> >>, wrap |-> << << >> >>])

\* a sequence iteration over what the host passes: the iterations are counted
\* and the last element is kept
ScenarioEach ==
    Scenario("each",
      << <<Entry("visit",
            FunctionDefReturn("FUNCTION", <<Str("xs")>>,
              <<LetStmt("count", LiteralExpr(Num(0))),
                LetStmt("last", LiteralExpr(Null)),
                ForStmt("x", RefExpr("xs"),
                  <<SetStmt("count", BinaryExpr("+", Str("count"), Num(1))),
                    SetStmt("last", RefExpr("x"))>>)>>,
              ArrayExpr(<<RefExpr("count"), RefExpr("last")>>)))>> >>,
      <<Undefined>>,
      << >>,
      [visit |-> << <<Array(<< >>)>>, <<Array(<<Num(7), Num(8)>>)>>, <<Str("")>>,
                    <<Str("ab")>>, <<Num(5)>>, <<Null>>, <<Object([a |-> Num(1)])>> >>])

\* a division of what the host passes
ScenarioRatio ==
    Scenario("ratio",
      << <<Entry("ratio",
            FunctionDefReturn("FUNCTION", <<Str("l"), Str("r")>>, << >>,
              BinaryExpr("/", RefExpr("l"), RefExpr("r"))))>> >>,
      <<Undefined>>,
      << >>,
      [ratio |-> << <<Num(6), Num(0)>>, <<Num(0), Num(0)>>, <<Num(-3), Num(0)>>,
                    <<Str("a"), Num(0)>>, <<Null, Num(0)>>, <<Undefined, Num(0)>>,
                    <<Bool(TRUE), Num(0)>>,
                    <<Num(6), Num(3)>>, <<Num(6), Num(4)>>, <<Num(6), Null>>,
                    <<Num(6)>> >>])

\* one object construction evaluated twice in an invocation
ScenarioTwin ==
    LET made == ObjectExpr(<< <<"a", RefExpr("x")>>,
                              <<"b", ObjectExpr(<< <<"c", CallExpr("abs", <<RefExpr("x")>>)>> >>)>> >>)
    IN  Scenario("twin",
          << <<Entry("twin",
                FunctionDefReturn("FUNCTION", <<Str("x")>>,
                  <<LetStmt("first", made), LetStmt("second", made)>>,
                  ArrayExpr(<<RefExpr("first"), RefExpr("second"),
                              BinaryExpr("===", RefExpr("first"), RefExpr("second"))>>)))>> >>,
          <<Undefined>>,
          << >>,
          [twin |-> << <<Num(-4)>>, <<Num(2)>> >>])

\* a whitelisted method called with arguments that are calls themselves: on
\* receivers that have a callable of that name and on receivers that do not
ScenarioTarget ==
    LET first == CallExpr("abs", <<LiteralExpr(Num(1))>>)
        second == CallExpr("abs", <<LiteralExpr(Num(-2))>>)
    IN  Scenario("target",
          << <<Entry("measure",
                FunctionDefReturn("FUNCTION", <<Str("x")>>, << >>,
                  MethodExpr("length", RefExpr("x"), <<first>>))),
               Entry("append",
                FunctionDefReturn("FUNCTION", <<Str("x")>>,
                  <<LetStmt("n", MethodExpr("push", RefExpr("x"), <<first, second>>))>>,
                  ArrayExpr(<<RefExpr("n"), RefExpr("x")>>)))>> >>,
          <<Undefined>>,
          << >>,
          [measure |-> << <<Array(<<Num(1), Num(2)>>)>>, <<Str("ab")>>,
                          <<Object([length |-> Num(5)])>>, <<Object([a |-> Num(1)])>>,
                          <<Num(1)>> >>,
           append |-> << <<Array(<<Num(7)>>)>>, <<Str("a")>>,
                         <<Object([push |-> Num(9)])>>,
                         <<Object([push |-> Fn("host", "push")])>> >>])

\* two contexts that differ in a variable, in a builtin and in their hooks, and
\* a function that calls another one, each compiled with either context or,
\* the called one, not compiled at all
ContextA ==
    [variables |-> [v |-> Num(1)],
     builtins |-> [tag |-> Fn("contextA.builtins", "tag")],
     onCall |-> Fn("contextA", "onCall")]
ContextB ==
    [variables |-> [v |-> Num(2)],
     builtins |-> [tag |-> Fn("contextB.builtins", "tag")],
     onReturn |-> Fn("contextB", "onReturn")]
ScenarioContexts ==
    Scenario("contexts",
      << <<Entry("outer",
            FunctionDefReturn("FUNCTION", << >>, << >>, CallExpr("inner", << >>))),
           Entry("inner",
            FunctionDefReturn("FUNCTION", << >>, << >>,
              ArrayExpr(<<RefExpr("v"), CallExpr("tag", << >>)>>)))>> >>,
      <<ContextA, ContextB>>,
      << >>,
      [outer |-> << << >> >>, inner |-> << << >> >>])

\* a function and a caller of it, and a second document that defines the
\* function differently
ScenarioStale ==
    Scenario("stale",
      << <<Entry("f", FunctionDefReturn("FUNCTION", << >>, << >>, LiteralExpr(Num(1)))),
           Entry("h", FunctionDefReturn("FUNCTION", << >>, << >>, CallExpr("f", << >>)))>>,
         <<Entry("f", FunctionDefReturn("FUNCTION", << >>, << >>, LiteralExpr(Num(2))))>> >>,
      <<Undefined>>,
      << >>,
      [f |-> << << >> >>, h |-> << << >> >>])

\* a document that loads, and one with an ill-formed entry in the middle: the
\* entry before it and the one after it are names the first document defines
\* differently
ScenarioPartial ==
    LET def(n) == FunctionDefReturn("FUNCTION", << >>, << >>, LiteralExpr(Num(n)))
    IN  Scenario("partial",
          << <<Entry("a", def(1)), Entry("c", def(3))>>,
             <<Entry("a", def(2)), Entry("b", [type |-> "FUNCTION"]),
               Entry("c", def(4)), Entry("d", def(5))>> >>,
          <<Undefined>>,
          << >>,
          [n \in {"a", "b", "c", "d"} |-> << << >> >>])

\* a sequence iteration whose body adds to the array it iterates over, at the
\* end (grow) or at the front (prepend), as long as the array is shorter than 4;
\* the iterations are counted
ScenarioGrow ==
    LET def(method) ==
            FunctionDefReturn("FUNCTION", <<Str("xs")>>,
              <<LetStmt("count", LiteralExpr(Num(0))),
                ForStmt("x", RefExpr("xs"),
                  <<SetStmt("count", BinaryExpr("+", RefExpr("count"), LiteralExpr(Num(1)))),
                    IfStmt(BinaryExpr("<", CallExpr("len", <<RefExpr("xs")>>),
                                      LiteralExpr(Num(4))),
                      <<LetStmt("n", MethodExpr(method, RefExpr("xs"),
                                                <<RefExpr("x")>>))>>)>>)>>,
              ArrayExpr(<<RefExpr("count"), RefExpr("xs")>>))
        args == << <<Array(<< >>)>>, <<Array(<<Num(7)>>)>>, <<Array(<<Num(1), Num(2)>>)>> >>
    IN  Scenario("grow",
          << <<Entry("grow", def("push")), Entry("prepend", def("unshift"))>> >>,
          <<Undefined>>,
          << >>,
          [grow |-> args, prepend |-> args])

\* a pre-condition loop whose guard stays truthy, one whose guard turns falsy,
\* and loops one inside and one after another
ScenarioLoops ==
    Scenario("loops",
      << <<Entry("spin",
            FunctionDef("FUNCTION", << >>,
              <<WhileStmt(LiteralExpr(Bool(TRUE)), << >>)>>)),
           Entry("countdown",
            FunctionDefReturn("FUNCTION", <<Str("n")>>,
              <<WhileStmt(BinaryExpr(">", RefExpr("n"), LiteralExpr(Num(0))),
                  <<SetStmt("n", BinaryExpr("-", RefExpr("n"), LiteralExpr(Num(1))))>>)>>,
              RefExpr("n"))),
           Entry("nest",
            FunctionDefReturn("FUNCTION", <<Str("n")>>,
              <<LetStmt("total", LiteralExpr(Num(0))),
                LetStmt("i", LiteralExpr(Num(0))),
                WhileStmt(BinaryExpr("<", RefExpr("i"), LiteralExpr(Num(2))),
                  <<LetStmt("j", LiteralExpr(Num(0))),
                    WhileStmt(BinaryExpr("<", RefExpr("j"), RefExpr("n")),
                      <<SetStmt("j", BinaryExpr("+", RefExpr("j"), LiteralExpr(Num(1)))),
                        SetStmt("total",
                          BinaryExpr("+", RefExpr("total"), LiteralExpr(Num(1))))>>),
                    SetStmt("i", BinaryExpr("+", RefExpr("i"), LiteralExpr(Num(1))))>>),
                WhileStmt(BinaryExpr("<", RefExpr("total"), LiteralExpr(Num(5))),
                  <<SetStmt("total",
                      BinaryExpr("+", RefExpr("total"), LiteralExpr(Num(1))))>>)>>,
              RefExpr("total")))>> >>,
      <<Undefined>>,
      << >>,
      [spin |-> << << >> >>, countdown |-> << <<Num(2)>> >>, nest |-> << <<Num(2)>> >>])

Scenarios ==
    <<ScenarioControl,
      ScenarioMethods,
      ScenarioCall("g", << <<Caller("g")>>, <<Callee("g")>> >>,
                   <<Undefined, WithBuiltin("g"), WithFunction("g")>>, <<"g">>),
      ScenarioCall("constructor", << <<Caller("constructor")>>, <<Callee("constructor")>> >>,
                   <<Undefined>>, << >>),
      ScenarioCall("toString", << <<Caller("toString")>> >>,
                   <<Undefined, WithBuiltin("other")>>, <<"toString">>),
      ScenarioRef("g", <<Undefined, WithBuiltin("g")>>, <<"g">>),
      ScenarioRef("toString", <<Undefined, WithBuiltin("other")>>, << >>),
      ScenarioRef("constructor", <<Undefined>>, << >>),
      ScenarioTrailing,
      ScenarioLogic,
      ScenarioPrice,
      ScenarioLoops,
      ScenarioSeed,
      ScenarioFlat,
      ScenarioOwn,
      ScenarioAssign,
      ScenarioHooks,
      ScenarioShapes,
      ScenarioReload,
      ScenarioFails,
      ScenarioEach,
      ScenarioRatio,
      ScenarioTwin,
      ScenarioTarget,
      ScenarioContexts,
      ScenarioStale,
      ScenarioPartial,
      ScenarioGrow>>

Host == Scenarios[host]

\* the arrays among the arguments, put on the heap
RECURSIVE Materialize(_, _, _)
Materialize(h, args, i) ==
    IF i > Len(args) THEN [heap |-> h, args |-> args]
    ELSE IF args[i].t = "array"
         THEN Materialize(Append(h, [kind |-> "array", elems |-> args[i].elems]),
                          [args EXCEPT ![i] = ArrRef(Len(h) + 1)], i + 1)
    ELSE IF args[i].t = "object"
         THEN Materialize(Append(h, [kind |-> "object", props |-> args[i].props]),
                          [args EXCEPT ![i] = ObjRef(Len(h) + 1)], i + 1)
    ELSE Materialize(h, args, i + 1)

Set(M) ==
    /\ functionDefs' = M.functionDefs
    /\ compiledFunctions' = M.compiledFunctions
    /\ builtins' = M.builtins
    /\ closures' = M.closures
    /\ ctl' = M.ctl
    /\ kont' = M.kont
    /\ scope' = M.scope
    /\ cur' = M.cur
    /\ heap' = M.heap
    /\ log' = M.log
    /\ UNCHANGED <<build, host>>

\* a load that leaves a name alone once a definition is stored under it
RECURSIVE LoadEntriesKeepingStored(_, _, _)
LoadEntriesKeepingStored(M, entries, i) ==
    IF i > Len(entries) THEN M
    ELSE LET bad == validateFunction(entries[i].key, entries[i].value)
         IN  IF "error" \in DOMAIN bad
             THEN [M EXCEPT !.ctl = [m |-> "done", status |-> "threw", error |-> bad,
                                     closure |-> 0]]
             ELSE LoadEntriesKeepingStored(
                     IF MapHas(M.functionDefs, entries[i].key) THEN M
                     ELSE [M EXCEPT !.functionDefs =
                              MapSet(@, entries[i].key, entries[i].value)],
                     entries, i + 1)

\* a load that takes the closure of every name it stores out of the compiled cache
RECURSIVE LoadEntriesInvalidating(_, _, _)
LoadEntriesInvalidating(M, entries, i) ==
    IF i > Len(entries) THEN M
    ELSE LET bad == validateFunction(entries[i].key, entries[i].value)
         IN  IF "error" \in DOMAIN bad
             THEN [M EXCEPT !.ctl = [m |-> "done", status |-> "threw", error |-> bad,
                                     closure |-> 0]]
             ELSE LoadEntriesInvalidating(
                     [M EXCEPT !.functionDefs = MapSet(@, entries[i].key, entries[i].value),
                               !.compiledFunctions =
                                   [n \in DOMAIN @ \ {entries[i].key} |-> @[n]]],
                     entries, i + 1)

\* a load that validates the whole document before it stores anything
RECURSIVE FirstInvalid(_, _)
FirstInvalid(entries, i) ==
    IF i > Len(entries) THEN NullResult
    ELSE LET bad == validateFunction(entries[i].key, entries[i].value)
         IN  IF "error" \in DOMAIN bad THEN bad ELSE FirstInvalid(entries, i + 1)
RECURSIVE LoadEntriesAllOrNothing(_, _, _)
LoadEntriesAllOrNothing(M, entries, i) ==
    IF i > Len(entries) THEN M
    ELSE LET bad == FirstInvalid(entries, i)
         IN  IF "error" \in DOMAIN bad
             THEN [M EXCEPT !.ctl = [m |-> "done", status |-> "threw", error |-> bad,
                                     closure |-> 0]]
             ELSE LoadEntriesAllOrNothing(
                     [M EXCEPT !.functionDefs = MapSet(@, entries[i].key, entries[i].value)],
                     entries, i + 1)

\* the Error load throws at the first entry that fails validation, the entries
\* before it stored
RECURSIVE LoadEntries(_, _, _)
LoadEntries(M, entries, i) ==
    IF i > Len(entries) THEN M
    ELSE LET bad == validateFunction(entries[i].key, entries[i].value)
         IN  IF "error" \in DOMAIN bad
             THEN [M EXCEPT !.ctl = [m |-> "done", status |-> "threw", error |-> bad,
                                     closure |-> 0]]
             ELSE LoadEntries([M EXCEPT !.functionDefs =
                                  MapSet(@, entries[i].key, entries[i].value)],
                              entries, i + 1)

\* load(config): the host has the compiler back, or the error
Load(d) ==
    /\ ctl = Idle
    /\ LET L == LoadEntries(Machine, Host.documents[d], 1)
       IN  IF L.ctl = Idle
           THEN Set([L EXCEPT !.ctl = [m |-> "done", status |-> "returned",
                                       load |-> d, closure |-> 0]])
           ELSE Set([L EXCEPT !.ctl = [m |-> "done", status |-> "threw",
                                       error |-> L.ctl.error,
                                       load |-> d, closure |-> 0]])

\* a compile that empties the compiled cache when it finds no definition
CompileDroppingCache(fnName, context) ==
    /\ ctl = Idle
    /\ Len(closures) < MaxClosures
    /\ IF ~MapHas(functionDefs, fnName)
       THEN Set([Machine EXCEPT !.ctl = [m |-> "done", status |-> "threw",
                                         error |-> Error("FunctionNotFound", fnName),
                                         closure |-> 0],
                                !.compiledFunctions = EmptyMap])
       ELSE Set(compile(Machine, fnName, context))

\* compile(fnName, context), called by the host
Compile(fnName, context) ==
    /\ ctl = Idle
    /\ Len(closures) < MaxClosures
    /\ IF ~MapHas(functionDefs, fnName)
       THEN Set([Machine EXCEPT !.ctl = [m |-> "done", status |-> "threw",
                                         error |-> Error("FunctionNotFound", fnName),
                                         closure |-> 0]])
       ELSE Set(compile(Machine, fnName, context))

\* a compileAll whose closures are not put in the compiled cache
RECURSIVE CompileEachUncached(_, _, _)
CompileEachUncached(M, names, context) ==
    IF names = << >> THEN M
    ELSE LET def == MapGet(M.functionDefs, Head(names))
             closure == [fnName |-> Head(names), def |-> def,
                         params |-> normalizeParams(def.config.params),
                         context |-> context]
         IN  CompileEachUncached([M EXCEPT !.closures = Append(@, closure)],
                                 Tail(names), context)

\* for (const name of this.functionDefs.keys()) result[name] = this.compile(name, context)
RECURSIVE CompileEach(_, _, _)
CompileEach(M, names, context) ==
    IF names = << >> THEN M
    ELSE CompileEach(compile(M, Head(names), context), Tail(names), context)

\* result[name] = this.compile(name, context): the closure each compile returned
RECURSIVE CompileAllResult(_, _, _)
CompileAllResult(M, names, context) ==
    IF names = << >> THEN EmptyMap
    ELSE LET C == compile(M, Head(names), context)
         IN  (Head(names) :> Len(C.closures)) @@ CompileAllResult(C, Tail(names), context)

\* compileAll(context): the host has the mapping from names to closures
CompileAll(context) ==
    /\ ctl = Idle
    /\ Len(closures) + Len(functionDefs) <= MaxClosures
    /\ Set([CompileEach(Machine, MapKeys(functionDefs), context)
              EXCEPT !.ctl = [m |-> "done", status |-> "returned",
                              compileAll |-> context,
                              value |-> CompileAllResult(Machine, MapKeys(functionDefs),
                                                         context),
                              closure |-> 0]])

\* addBuiltin(name, fn)
AddBuiltin(name) ==
    /\ ctl = Idle
    /\ Set([Machine EXCEPT !.builtins = (name :> Fn("addBuiltin", name)) @@ @])

\* a get(name) that compiles what is loaded and not yet compiled
GetCompiling(name) ==
    /\ ctl = Idle
    /\ LET C == IF name \notin DOMAIN compiledFunctions /\ MapHas(functionDefs, name)
                THEN compile(Machine, name, Undefined) ELSE Machine
       IN  Set([C EXCEPT !.ctl = [m |-> "done", status |-> "returned", get |-> name,
                                  value |-> get(C, name), closure |-> 0]])

\* get(name), called by the host: value is the closure returned (0: undefined)
Get(name) ==
    /\ ctl = Idle
    /\ Set([Machine EXCEPT !.ctl = [m |-> "done", status |-> "returned", get |-> name,
                                    value |-> get(Machine, name), closure |-> 0]])

\* the host calls a closure it was handed
Invoke(id, args) ==
    /\ ctl = Idle
    /\ LET m == Materialize(<< >>, args, 1)
       IN  Set([compiledFn([Machine EXCEPT !.heap = m.heap, !.log = << >>], id, m.args)
               EXCEPT !.kont[1].args = args])

\* the evaluator takes a step
Run ==
    /\ ctl.m \in {"body", "expr", "stmt", "val", "sig"}
    /\ Set(Step(Machine))

\* the host has the value or the error of its call and goes on
Settle ==
    /\ ctl.m = "done"
    /\ Set([Machine EXCEPT !.ctl = Idle, !.log = << >>])

Init ==
    /\ build = "src"
    /\ host \in DOMAIN Scenarios
    /\ functionDefs = EmptyMap
    /\ compiledFunctions = EmptyMap
    /\ builtins = createBuiltins
    /\ closures = << >>
    /\ ctl = Idle
    /\ kont = << >>
    /\ scope = EmptyMap
    /\ cur = 0
    /\ heap = << >>
    /\ log = << >>

Next ==
    \/ \E d \in DOMAIN Host.documents : Load(d)
    \/ \E d \in DOMAIN Host.documents, c \in DOMAIN Host.contexts :
          \E e \in DOMAIN Host.documents[d] :
             Compile(Host.documents[d][e].key, Host.contexts[c])
    \/ \E c \in DOMAIN Host.contexts : CompileAll(Host.contexts[c])
    \/ \E a \in DOMAIN Host.additions : AddBuiltin(Host.additions[a])
    \/ \E d \in DOMAIN Host.documents :
          \E e \in DOMAIN Host.documents[d] : Get(Host.documents[d][e].key)
    \/ \E id \in DOMAIN closures :
          \E a \in DOMAIN Host.args[closures[id].fnName] :
             Invoke(id, Host.args[closures[id].fnName][a])
    \/ Run
    \/ Settle

Spec == Init /\ [][Next]_vars

(***************************************************************************)
(* The two builds of the evaluator side by side, on the loops: the host    *)
(* has loaded the document and compiled every function of it, and calls    *)
(* the closures.  An invocation is one synchronous call, so the evaluator  *)
(* goes on stepping as long as it has a step to take.                      *)
(***************************************************************************)
LoopsHost == CHOOSE h \in DOMAIN Scenarios : Scenarios[h].name = "loops"

LoopInit ==
    LET M == [build |-> "src", functionDefs |-> EmptyMap, compiledFunctions |-> EmptyMap,
              builtins |-> createBuiltins, closures |-> << >>, ctl |-> Idle,
              kont |-> << >>, scope |-> EmptyMap, cur |-> 0, heap |-> << >>,
              log |-> << >>]
        loaded == LoadEntries(M, Scenarios[LoopsHost].documents[1], 1)
        compiled == CompileEach(loaded, MapKeys(loaded.functionDefs), Undefined)
    IN  /\ build \in {"src", "dist"}
        /\ host = LoopsHost
        /\ functionDefs = compiled.functionDefs
        /\ compiledFunctions = compiled.compiledFunctions
        /\ builtins = compiled.builtins
        /\ closures = compiled.closures
        /\ ctl = Idle
        /\ kont = << >>
        /\ scope = EmptyMap
        /\ cur = 0
        /\ heap = << >>
        /\ log = << >>

LoopNext ==
    \/ \E id \in DOMAIN closures :
          \E a \in DOMAIN Host.args[closures[id].fnName] :
             Invoke(id, Host.args[closures[id].fnName][a])
    \/ Run
    \/ Settle

LoopSpec == LoopInit /\ [][LoopNext]_vars /\ WF_vars(Run)

(***************************************************************************)
(* What the host sees of a call, and the places a name is an entry of.     *)
(***************************************************************************)
\* a closure invocation has ended and the host has its value or its error
Finished == ctl.m = "done" /\ ctl.closure # 0
FinishedFn == closures[ctl.closure].fnName
Returned(v) == ctl.status = "returned" /\ ctl.value = v
Threw(err) == ctl.status = "threw" /\ ctl.error = err

\* the result the running invocation hands over in the next state: to the host
\* when it is the host's call, to the calling expression otherwise
Delivers(v) ==
    IF Len(kont) = 1
    THEN ctl'.m = "done" /\ ctl'.status = "returned" /\ ctl'.value = Snapshot(heap, v)
    ELSE ctl' = [m |-> "val", v |-> v] /\ kont' = Tail(kont)
Raises(err) == ctl'.m = "done" /\ ctl'.status = "threw" /\ ctl'.error = err

\* the entries of the tables of the running closure's context
ContextEntries(field) ==
    IF cur # 0 /\ HasField(closures[cur].context, field)
    THEN closures[cur].context[field] ELSE EmptyMap
LoadedNames == {functionDefs[i].key : i \in DOMAIN functionDefs}

\* the control is at a variable reference, full or shorthand
AtRef ==
    /\ ctl.m = "expr"
    /\ \/ IsPrim(ctl.e) /\ ctl.e.t = "string"
       \/ ~IsPrim(ctl.e) /\ DOMAIN ctl.e = {"ref"}
RefName == IF IsPrim(ctl.e) THEN ctl.e.v ELSE ctl.e.ref

\* the control is at a function-call node whose arguments are all evaluated
\* once this step is taken
AtCall ==
    \/ /\ ctl.m = "expr" /\ ~IsPrim(ctl.e) /\ "call" \in DOMAIN ctl.e
       /\ DOMAIN ctl.e \subseteq {"call", "arguments"}
       /\ Arguments(ctl.e) = << >>
    \/ /\ ctl.m = "val" /\ Head(kont).k = "call.arguments"
       /\ Len(Head(kont).done) + 1 = Len(Arguments(Head(kont).e))
CallName == IF ctl.m = "expr" THEN ctl.e.call ELSE Head(kont).e.call
Called(f) == log' # log /\ log'[Len(log')].ev = "call" /\ log'[Len(log')].fn = f

(***************************************************************************)
(* The loop cap.                                                           *)
(***************************************************************************)
Spinning == ctl.m = "stmt" /\ closures[cur].fnName = "spin"

\* C1: a pre-condition loop whose guard stays truthy forever always ends: the
\* invocation raises LoopLimitExceeded once the cap is reached, and no invocation
\* runs forever.
WhileLoopAlwaysEnds ==
    /\ Spinning ~> (Finished /\ ctl.status = "threw"
                             /\ ctl.error.error = "LoopLimitExceeded")
    /\ (ctl.m \notin {"idle", "done"}) ~> (ctl.m = "done")

(***************************************************************************)
(* The method whitelist.                                                   *)
(***************************************************************************)
\* C2: a method-call node whose method is not in the whitelist raises
\* MethodNotAllowed as soon as its receiver is evaluated, whatever the receiver
\* is (null and undefined included), and no method is invoked or read.
MethodOutsideWhitelistRaises ==
    [][(/\ ctl.m = "val"
        /\ Head(kont).k = "method.object"
        /\ Head(kont).e.method \notin allowedMethods)
       => /\ Raises(Error("MethodNotAllowed", Head(kont).e.method))
          /\ log' = log]_vars

\* a null receiver met a method outside the whitelist
MethodOutsideWhitelistOnNull ==
    /\ Finished /\ FinishedFn = "escape"
    /\ ctl.args = <<Null>>
    /\ Threw(Error("MethodNotAllowed", "constructor"))
    /\ log = << >>

(***************************************************************************)
(* The resolution of names.                                                *)
(***************************************************************************)
\* the name is an entry of none of the places a name is looked up in
Unknown(n) ==
    n \notin DOMAIN scope \cup DOMAIN ContextEntries("builtins")
             \cup DOMAIN ContextEntries("functions") \cup DOMAIN builtins
             \cup DOMAIN compiledFunctions \cup LoadedNames

\* C3: a name that is an entry of no table (the names every host object
\* inherits included) makes a variable reference raise UndefinedVariable and a
\* function call raise UnknownFunction; no host value is returned or invoked.
UnknownNameRaises ==
    [][/\ (AtRef /\ Unknown(RefName)) => Raises(Error("UndefinedVariable", RefName))
       /\ (AtCall /\ Unknown(CallName))
             => Raises(Error("UnknownFunction", CallName)) /\ log' = log]_vars

\* C4: a function call takes the first of (1) the context's builtins, (2) the
\* registry's builtins, (3) the context's functions, (4) the compiled cache,
\* (5) the loaded definitions, compiled on the spot with the caller's context,
\* that has its name as an entry, and invokes that one only.
CallResolutionOrder ==
    [][AtCall =>
        LET n == CallName IN
        IF n \in DOMAIN ContextEntries("builtins")
        THEN Called(ContextEntries("builtins")[n]) /\ closures' = closures
        ELSE IF n \in DOMAIN builtins
        THEN Called(builtins[n]) /\ closures' = closures
        ELSE IF n \in DOMAIN ContextEntries("functions")
        THEN Called(ContextEntries("functions")[n]) /\ closures' = closures
        ELSE IF n \in DOMAIN compiledFunctions
        THEN /\ ctl'.m = "body" /\ cur' = compiledFunctions[n]
             /\ closures' = closures /\ log' = log
        ELSE IF n \in LoadedNames
        THEN /\ ctl'.m = "body" /\ cur' = Len(closures) + 1
             /\ Len(closures') = Len(closures) + 1
             /\ closures'[cur'].fnName = n
             /\ closures'[cur'].context = closures[cur].context
             /\ compiledFunctions'[n] = cur'
        ELSE TRUE]_vars

\* C5: a variable reference takes the first of (1) the scope, (2) the context's
\* builtins, (3) the registry's builtins that has its name as an entry; a name
\* bound in the scope hides the builtins even when bound to undefined.
RefResolutionOrder ==
    [][AtRef =>
        LET n == RefName IN
        IF n \in DOMAIN scope THEN ctl' = [m |-> "val", v |-> scope[n]]
        ELSE IF n \in DOMAIN ContextEntries("builtins")
        THEN ctl' = [m |-> "val", v |-> ContextEntries("builtins")[n]]
        ELSE IF n \in DOMAIN builtins THEN ctl' = [m |-> "val", v |-> builtins[n]]
        ELSE TRUE]_vars

(***************************************************************************)
(* Return.                                                                 *)
(***************************************************************************)
\* C6: once a return statement has executed, at whatever depth, every step
\* abandons one enclosing construct with the signal unchanged (no statement,
\* no iteration, no guard runs), until the invocation ends with the value of
\* the return's expression as its result.
ReturnStopsTheBody ==
    [][/\ (ctl.m = "val" /\ Head(kont).k = "return")
             => ctl' = [m |-> "sig", r |-> ReturnValue(ctl.v)] /\ kont' = Tail(kont)
       /\ (ctl.m = "sig" /\ ctl.r.__return__)
             => IF Head(kont).k = "compiledFn" THEN Delivers(ctl.r.value)
                ELSE ctl' = ctl /\ kont' = Tail(kont) /\ scope' = scope /\ log' = log]_vars

\* a return inside an if inside a while inside a for is on its way out
ReturnLeavingNestedLoops ==
    /\ ctl.m = "sig" /\ ctl.r.__return__
    /\ Head(kont).k = "do"
    /\ \E i \in DOMAIN kont : kont[i].k = "for"

\* C7: when the body ends without a return signal, the result is the value of
\* the definition's trailing return expression, whatever its form (the bare 0
\* and false included), and undefined only when the definition carries none.
TrailingReturnIsTheResult ==
    [][/\ (ctl.m = "sig" /\ ~ctl.r.__return__ /\ Head(kont).k = "compiledFn")
             => LET config == closures[Head(kont).closure].def.config
                IN  IF "return" \in DOMAIN config
                    THEN /\ ctl' = [m |-> "expr", e |-> config.return]
                         /\ Head(kont').k = "compiledFn.return"
                         /\ scope' = scope
                    ELSE Delivers(Undefined)
       /\ (ctl.m = "val" /\ Head(kont).k = "compiledFn.return") => Delivers(ctl.v)]_vars

(***************************************************************************)
(* Short circuit.                                                          *)
(***************************************************************************)
\* the left operand of the function's && or || decides the result
LeftDecides ==
    \/ FinishedFn \in {"both", "guarded"} /\ ~Truthy(ctl.args[1])
    \/ FinishedFn = "either" /\ Truthy(ctl.args[1])

\* C8: when the left operand of && is falsy or that of || is truthy, the right
\* operand is not evaluated: no call inside it is executed and no error of it
\* is raised, and the result is the left operand.
RightOperandOnlyWhenNeeded ==
    (Finished /\ Host.name = "logic" /\ LeftDecides)
       => Returned(ctl.args[1]) /\ log = << >>

(***************************************************************************)
(* Contexts and the cache.                                                 *)
(***************************************************************************)
TaxRate(id) == closures[id].context.variables.taxRate

\* C9, as stated: each closure of a name compiled under two contexts computes
\* its result from the variables of the context it was compiled with.
ResultFromOwnContext ==
    (Finished /\ Host.name = "price")
       => IF FinishedFn = "calculatePrice"
          THEN Returned(Num(ctl.args[1].v * (100 + TaxRate(ctl.closure).v)))
          ELSE Returned(TaxRate(ctl.closure))

\* C9, amended: each closure evaluates its own body with the variables of the
\* context it was compiled with; a function-call node in the body (one naming
\* the function itself included) runs the closure cached under the name, with
\* the context of that one.
BodyWithOwnContext ==
    (Finished /\ Host.name = "price")
       => IF FinishedFn = "calculatePrice"
          THEN Returned(Num(ctl.args[1].v * (100 + TaxRate(ctl.closure).v)))
          ELSE IF ctl.args = <<Num(0)>> THEN Returned(TaxRate(ctl.closure))
          ELSE Returned(TaxRate(get(Machine, "rate")))

\* the first of two closures of calculatePrice, compiled with two contexts, was
\* called after the second was compiled
FirstOfTwoContexts ==
    /\ Finished /\ ctl.closure = 1 /\ Len(closures) = 2
    /\ closures[1].fnName = "calculatePrice" /\ closures[2].fnName = "calculatePrice"
    /\ closures[1].context # closures[2].context
    /\ Returned(Num(10800))

LastCompiled(name) ==
    LET ids == {i \in DOMAIN closures : closures[i].fnName = name}
    IN  IF ids = {} THEN 0 ELSE CHOOSE i \in ids : \A j \in ids : j <= i

\* C10: after any sequence of load, compile and compileAll, get(name) is the
\* closure of the most recent compilation of the name, and the closures of the
\* earlier compilations stay as they were, context included.
LastCompiledWins ==
    /\ [](\A name \in LoadedNames \cup DOMAIN compiledFunctions :
             get(Machine, name) = LastCompiled(name))
    /\ [][\A id \in DOMAIN closures :
             id \in DOMAIN closures' /\ closures'[id] = closures[id]]_vars

\* a name was compiled twice with two contexts, and the closure of the first
\* compilation has been called since
EarlierClosureStillWorks ==
    /\ Finished /\ ctl.closure = 1 /\ Len(closures) = 2
    /\ closures[1].fnName = "rate" /\ closures[2].fnName = "rate"
    /\ closures[1].context # closures[2].context
    /\ get(Machine, "rate") = 2
    /\ ctl.args = <<Num(0)>> /\ Returned(TaxRate(1))

(***************************************************************************)
(* The registry's calls.                                                   *)
(***************************************************************************)
\* the host has the answer of a get(name)
Got == ctl.m = "done" /\ "get" \in DOMAIN ctl

\* C11: get(name) never compiles: it leaves the compiled cache, the closures,
\* the definition table and the builtin table as they were, and for a name
\* that is loaded and was never compiled it answers undefined.
GetNeverCompiles ==
    /\ [][(ctl'.m = "done" /\ "get" \in DOMAIN ctl')
            => UNCHANGED <<compiledFunctions, closures, functionDefs, builtins>>]_vars
    /\ [](Got => ctl.value = LastCompiled(ctl.get))

\* get was asked for a name that is loaded and was never compiled, while
\* another name is compiled
GetOfLoadedNotCompiled ==
    /\ Got /\ ctl.get \in LoadedNames
    /\ LastCompiled(ctl.get) = 0 /\ ctl.value = 0
    /\ closures # << >>

(***************************************************************************)
(* Scopes.                                                                 *)
(***************************************************************************)
\* a closure has just been called: its frame is on top, no statement has run
Entered == ctl.m = "body"
EnteredClosure == closures[Head(kont).closure]
\* argument i of the call as the scope holds it (Undefined when missing)
EnteredArg(i) ==
    LET given == Arg(Head(kont).args, i)
    IN  IF Len(kont) = 1 THEN given ELSE Snapshot(heap, given)

\* C12: the scope a closure starts with holds exactly the context's variables
\* and the parameters; parameter i is argument i, or undefined when the
\* argument is missing, whether or not a context variable has its name;
\* arguments beyond the parameters bind nothing.
ScopeSeededFromContextThenParams ==
    (Entered /\ \A i, j \in DOMAIN EnteredClosure.params :
                   EnteredClosure.params[i] = EnteredClosure.params[j] => i = j)
       => LET params == EnteredClosure.params
              variables == ContextEntries("variables")
          IN  /\ DOMAIN scope = DOMAIN variables \cup {params[i] : i \in DOMAIN params}
              /\ \A i \in DOMAIN params :
                     Snapshot(heap, scope[params[i]]) = EnteredArg(i)
              /\ \A n \in DOMAIN variables :
                     n \notin {params[i] : i \in DOMAIN params} => scope[n] = variables[n]

\* called without arguments, the parameter named as a context variable is
\* undefined and not the context's value
ParameterHidesContextVariable ==
    /\ Finished /\ FinishedFn = "show" /\ ctl.args = << >>
    /\ Returned(Array(<<Undefined, Undefined, Num(30)>>))

\* the invocations on the call stack
Frames(k) ==
    Cardinality({i \in DOMAIN k : k[i].k \in {"compiledFn", "compiledFn.return"}})
Running == ctl.m \in {"body", "expr", "stmt", "val", "sig"}
\* the names whose binding differs between the scope and the next one
Rebound == {n \in DOMAIN scope : n \notin DOMAIN scope' \/ scope'[n] # scope[n]}
                \cup (DOMAIN scope' \ DOMAIN scope)

\* C13: scopes do not nest.  Within an invocation a step changes the scope only
\* by binding the name of a let or set, or the variable of a for; entering and
\* leaving a block changes nothing, so a binding made in a block stays, with
\* its last value, after the block.  The total of [1,2,3,4,5] is 15 after the
\* loop, and a let in a nested block overwrites the outer binding.
ScopesDoNotNest ==
    /\ [][(Running /\ ctl'.m \in {"body", "expr", "stmt", "val", "sig"}
               /\ Frames(kont') = Frames(kont))
            => IF ctl.m = "val" /\ Head(kont).k = "let"
               THEN scope' = (Head(kont).s.let :> ctl.v) @@ scope
               ELSE IF ctl.m = "val" /\ Head(kont).k = "set"
               THEN scope' = (Head(kont).s.set :> ctl.v) @@ scope
               ELSE IF \/ ctl.m = "val" /\ Head(kont).k = "in"
                       \/ ctl.m = "sig" /\ Head(kont).k = "for"
               THEN /\ Rebound \subseteq {Head(kont).s.for}
                    /\ DOMAIN scope \subseteq DOMAIN scope'
               ELSE scope' = scope]_vars
    /\ []((Finished /\ FinishedFn = "sumArray")
            => Returned(Array(<<Num(15), Num(5)>>)))
    /\ []((Finished /\ FinishedFn = "redeclare")
            => Returned(Array(<<Num(2), Num(5), Num(0)>>)))

\* the loop over [1,2,3,4,5] has ended and the function's trailing return
\* reads total and the loop's variable
TotalVisibleAfterLoop ==
    /\ ctl.m = "expr" /\ closures[cur].fnName = "sumArray"
    /\ Head(kont).k = "compiledFn.return"
    /\ scope.total = Num(15) /\ scope.item = Num(5)

\* the scopes of the invocations that wait for a nested one, innermost first
RECURSIVE CallerScopes(_)
CallerScopes(k) ==
    IF k = << >> THEN << >>
    ELSE IF Head(k).k \in {"compiledFn", "compiledFn.return"}
         THEN <<Head(k).scope>> \o CallerScopes(Tail(k))
    ELSE CallerScopes(Tail(k))

\* C14: every invocation owns its scope.  A nested invocation leaves the scope
\* of its caller as it was at the call, whatever it binds, and the caller
\* has exactly that scope again when the nested invocation returns; no
\* invocation sees a binding made in another one: not in an earlier call of
\* the same closure, not in its caller, not in a deeper call of itself.
InvocationOwnsItsScope ==
    /\ [][(Running /\ ctl'.m \in {"body", "expr", "stmt", "val", "sig"})
            => IF Frames(kont') = Frames(kont) + 1
               THEN CallerScopes(kont') = <<scope>> \o CallerScopes(kont)
               ELSE IF Frames(kont') = Frames(kont) - 1
               THEN /\ scope' = Head(CallerScopes(kont))
                    /\ CallerScopes(kont') = Tail(CallerScopes(kont))
               ELSE CallerScopes(kont') = CallerScopes(kont)]_vars
    /\ []((Finished /\ Host.name = "own")
            => CASE FinishedFn = "leak" /\ ctl.args = <<Bool(TRUE)>> -> Returned(Num(1))
                 [] FinishedFn = "leak" /\ ctl.args # <<Bool(TRUE)>> ->
                      Threw(Error("UndefinedVariable", "secret"))
                 [] FinishedFn = "spy" -> Threw(Error("UndefinedVariable", "secret"))
                 [] FinishedFn = "outer" -> Returned(Array(<<Num(7), Num(1)>>))
                 [] FinishedFn = "down" ->
                      Returned(Array(<<Num(2), Array(<<Num(1), Num(0)>>)>>)))

\* a function that bound secret called one that reads secret without binding
\* it, after an earlier call of that one had bound it
CalleeSeesNoCallerBinding ==
    /\ Finished /\ FinishedFn = "spy" /\ Threw(Error("UndefinedVariable", "secret"))
    /\ \E i \in DOMAIN closures : closures[i].fnName = "leak" /\ i < ctl.closure

AtSet == ctl.m = "stmt" /\ "set" \in DOMAIN ctl.s
Assigning == ctl.m = "val" /\ kont # << >> /\ Head(kont).k = "set"

\* C15: an assignment to a name the scope does not bind raises
\* UnboundAssignment for that name at once, before anything of its value
\* expression is evaluated (no call is made), also when the name is one a
\* reference would resolve as a builtin; an assignment to a bound name
\* evaluates the value and replaces that one binding, every other binding
\* staying as it is.
SetNeedsBoundName ==
    /\ [][(AtSet /\ ctl.s.set \notin DOMAIN scope)
            => Raises(Error("UnboundAssignment", ctl.s.set)) /\ log' = log]_vars
    /\ [][(AtSet /\ ctl.s.set \in DOMAIN scope)
            => ctl' = [m |-> "expr", e |-> ctl.s.value] /\ scope' = scope]_vars
    /\ [][Assigning
            => /\ DOMAIN scope' = DOMAIN scope
               /\ scope'[Head(kont).s.set] = ctl.v
               /\ \A n \in DOMAIN scope \ {Head(kont).s.set} : scope'[n] = scope[n]]_vars
    /\ []((Finished /\ Host.name = "assign")
            => IF FinishedFn = "bump" THEN Returned(Array(<<Num(2), Num(5)>>))
               ELSE /\ Threw(Error("UnboundAssignment", "abs"))
                    /\ log = <<[ev |-> "call", fn |-> Fn("builtins", "abs"),
                                 args |-> <<Num(5)>>]>>)

\* the assignment to a builtin's name has raised, after the one call before it
SetOfBuiltinNameRaised ==
    /\ Finished /\ FinishedFn = "stray" /\ Threw(Error("UnboundAssignment", "abs"))
    /\ Len(log) = 1

\* the running invocation completes normally in this step
Completes ==
    /\ Running
    /\ \/ ctl'.m = "done" /\ ctl'.status = "returned"
       \/ ctl'.m = "val" /\ Frames(kont') = Frames(kont) - 1
\* an invocation is entered in this step
Enters == ctl'.m = "body"
Hooked(ev) == Len(log') > Len(log) /\ log'[Len(log')].ev = ev

\* C16: a closure whose context has the hooks calls onCall once when it is
\* entered, with its name and its arguments, before anything of the body
\* runs, and onReturn once when it completes normally, with its name and the
\* value it then returns, after the body and the trailing return; the hooks
\* are called at no other moment.
HooksOncePerInvocation ==
    /\ [][Enters
            => LET id == Head(kont').closure
               IN  IF HasField(closures'[id].context, "onCall")
                   THEN /\ Len(log') = Len(log) + 1
                        /\ SubSeq(log', 1, Len(log)) = log
                        /\ log'[Len(log')].ev = "onCall"
                        /\ log'[Len(log')].fn = closures'[id].fnName
                        /\ Len(log'[Len(log')].args) = Len(Head(kont').args)
                        /\ \A i \in DOMAIN Head(kont').args :
                             Snapshot(heap', log'[Len(log')].args[i])
                               = IF Len(kont') = 1 THEN Head(kont').args[i]
                                 ELSE Snapshot(heap', Head(kont').args[i])
                   ELSE log' = log]_vars
    /\ [][Completes
            => LET c == closures[Head(kont).closure]
               IN  IF HasField(c.context, "onReturn")
                   THEN /\ Len(log') = Len(log) + 1
                        /\ SubSeq(log', 1, Len(log)) = log
                        /\ log'[Len(log')].ev = "onReturn"
                        /\ log'[Len(log')].fn = c.fnName
                        /\ Delivers(log'[Len(log')].result)
                   ELSE log' = log]_vars
    /\ [][(Hooked("onCall") => Enters) /\ (Hooked("onReturn") => Completes)]_vars

\* an invocation with hooks that called another one has returned
HooksAroundNestedInvocation ==
    /\ Finished /\ FinishedFn = "both" /\ Returned(Num(7))
    /\ log = <<[ev |-> "onCall", fn |-> "both", args |-> <<Num(3), Num(4)>>],
               [ev |-> "onCall", fn |-> "twice", args |-> <<Num(3)>>],
               [ev |-> "onReturn", fn |-> "twice", result |-> Num(6)],
               [ev |-> "onReturn", fn |-> "both", result |-> Num(7)]>>

Loaded == ctl.m = "done" /\ "load" \in DOMAIN ctl
\* an ordered sequence is there under the name
HasSequence(config, field) ==
    field \in DOMAIN config /\ IsPrim(config[field]) /\ config[field].t = "list"
\* the entry has the function marker, a configuration object, and in it a
\* parameter list and a body that are ordered sequences
WellFormed(def) ==
    /\ "type" \in DOMAIN def /\ def.type = "FUNCTION"
    /\ "config" \in DOMAIN def /\ ~IsPrim(def.config)
    /\ HasSequence(def.config, "params")
    /\ HasSequence(def.config, "body")
\* the first entry of the document that is not well formed, 0 when all are
FirstIllFormed(doc) ==
    LET bad == {e \in DOMAIN doc : ~WellFormed(doc[e].value)}
    IN  IF bad = {} THEN 0 ELSE CHOOSE e \in bad : \A f \in bad : e <= f

\* C17: load raises InvalidDefinition, naming the entry, exactly when an
\* entry of the document lacks the function marker, or a configuration
\* object, or a parameter list or a body that is an ordered sequence: it
\* raises at the first such entry, and returns when there is none.  An entry
\* that passed is stored under its name, only such entries are stored, and
\* compile of a stored name gives a closure.
LoadValidatesEachEntry ==
    /\ [](Loaded
            => LET doc == Host.documents[ctl.load]
                   bad == FirstIllFormed(doc)
               IN  IF bad = 0
                   THEN /\ ctl.status = "returned"
                        /\ \A e \in DOMAIN doc :
                             /\ MapHas(functionDefs, doc[e].key)
                             /\ MapGet(functionDefs, doc[e].key) = doc[e].value
                   ELSE /\ Threw(Error("InvalidDefinition", doc[bad].key))
                        /\ \A e \in 1..(bad - 1) :
                             /\ MapHas(functionDefs, doc[e].key)
                             /\ MapGet(functionDefs, doc[e].key) = doc[e].value)
    /\ [](\A i \in DOMAIN functionDefs : WellFormed(functionDefs[i].value))
    /\ [][(ctl = Idle /\ ctl'.m = "done" /\ ctl'.status = "threw"
             /\ ctl'.error.error = "FunctionNotFound")
            => ctl'.error.arg \notin LoadedNames]_vars

\* the entry before an ill-formed one was stored by the load that raised, and
\* has been compiled and called since
StoredBeforeTheOffendingEntry ==
    /\ Finished /\ FinishedFn = "ok" /\ Returned(Num(5))
    /\ LoadedNames = {"ok"}

\* every entry of the document is a FunctionDef as types.ts declares it
ConformsToFunctionDef(doc) ==
    \A e \in DOMAIN doc :
       /\ DOMAIN doc[e].value = {"type", "config"}
       /\ doc[e].value.type = "CALLBACK"
       /\ ~IsPrim(doc[e].value.config)
       /\ HasSequence(doc[e].value.config, "params")
       /\ HasSequence(doc[e].value.config, "body")

\* C18: loading a document whose entries are FunctionDefs as declared, with
\* the tag 'CALLBACK' as in the demo, succeeds and stores them, and the
\* closure of its add function called with (2, 3) returns 5.
DeclaredDefinitionsLoad ==
    /\ (Loaded /\ ConformsToFunctionDef(Host.documents[ctl.load]))
         => /\ ctl.status = "returned"
            /\ \A e \in DOMAIN Host.documents[ctl.load] :
                  MapHas(functionDefs, Host.documents[ctl.load][e].key)
    /\ (Finished /\ FinishedFn = "add") => Returned(Num(5))

\* load returns in this step, having taken every entry of the document
Loads == ctl = Idle /\ ctl'.m = "done" /\ "load" \in DOMAIN ctl' /\ ctl'.status = "returned"
LoadedDocument == Host.documents[ctl'.load]
DocumentNames(doc) == {doc[e].key : e \in DOMAIN doc}
\* a closure is created in this step, by compile, compileAll or a call node
Compiles == Len(closures') > Len(closures)

\* C19: loading is idempotent per name.  A load that returns leaves under
\* each name of its document the definition the document gives, and every
\* other name as it was, so that loading a document again changes nothing
\* in the definition table; the closure a later compile creates for a name
\* has the definition stored then, the replaced one no more.
LoadReplacesPerName ==
    /\ [][Loads
            => /\ \A e \in DOMAIN LoadedDocument :
                    /\ MapHas(functionDefs', LoadedDocument[e].key)
                    /\ MapGet(functionDefs', LoadedDocument[e].key) = LoadedDocument[e].value
               /\ LoadedNames' = LoadedNames \cup DocumentNames(LoadedDocument)
               /\ \A n \in LoadedNames \ DocumentNames(LoadedDocument) :
                    MapGet(functionDefs', n) = MapGet(functionDefs, n)
               /\ (\A e \in DOMAIN LoadedDocument :
                      /\ MapHas(functionDefs, LoadedDocument[e].key)
                      /\ MapGet(functionDefs, LoadedDocument[e].key) = LoadedDocument[e].value)
                    => functionDefs' = functionDefs]_vars
    /\ [][Compiles
            => \A id \in (DOMAIN closures') \ (DOMAIN closures) :
                  closures'[id].def = MapGet(functionDefs, closures'[id].fnName)]_vars

\* f was loaded and compiled, loaded again with another definition and
\* compiled again: the closure of the second compilation has returned
ReloadedDefinitionCompiled ==
    /\ Finished /\ FinishedFn = "f" /\ Returned(Num(2))
    /\ \E id \in DOMAIN closures :
          /\ id < ctl.closure /\ closures[id].fnName = "f"
          /\ closures[id].def # closures[ctl.closure].def
    /\ MapHas(functionDefs, "g")

\* the evaluator raises in this step
RaisesNow == Running /\ ctl'.m = "done" /\ ctl'.status = "threw"
ProbeCall(n) == [ev |-> "call", fn |-> Fn("builtins", "abs"), args |-> <<Num(n)>>]

\* C20: when a statement or an expression raises, the invocation, and every
\* invocation waiting for it, raises that error at once: the host has the
\* error in the same step, nothing of the call stack is left to run, no hook
\* and no function is called, and the only thing that follows is the host
\* going on.  No later statement runs, the trailing return is not evaluated,
\* onReturn is not called, and no value is returned.
ErrorEndsTheInvocation ==
    /\ [][RaisesNow
            => /\ kont' = << >> /\ log' = log
               /\ "value" \notin DOMAIN ctl'
               /\ ctl'.closure = kont[Len(kont)].closure]_vars
    /\ [][(ctl.m = "done" /\ ctl.status = "threw") => (ctl' = Idle /\ kont' = << >>)]_vars
    /\ []((Finished /\ Host.name = "fails")
            => /\ Threw(Error("UndefinedVariable", "missing"))
               /\ log = IF FinishedFn = "crash"
                         THEN <<[ev |-> "onCall", fn |-> "crash", args |-> <<Num(0)>>],
                                ProbeCall(1)>>
                         ELSE <<[ev |-> "onCall", fn |-> "wrap", args |-> << >>],
                                [ev |-> "onCall", fn |-> "crash", args |-> <<Num(0)>>],
                                ProbeCall(1)>>)

\* an invocation with hooks raised inside the invocation it had called
ErrorThroughCaller ==
    /\ Finished /\ FinishedFn = "wrap" /\ Threw(Error("UndefinedVariable", "missing"))
    /\ Len(log) = 3 /\ log[3] = ProbeCall(1)

\* what visit returns for a source with these elements
Visited(elems) ==
    Array(<<Num(Len(elems)), IF elems = << >> THEN Null ELSE elems[Len(elems)]>>)

\* C21: a sequence iteration raises NotIterable exactly when its source is
\* neither an array nor a string; over an array or a string, the empty ones
\* included, it raises nothing and runs the body once per element, in order,
\* with the loop variable bound to the element.
ForTakesEveryIterable ==
    (Finished /\ FinishedFn = "visit")
      => LET xs == ctl.args[1]
         IN  CASE xs.t = "array" -> Returned(Visited(xs.elems))
               [] xs.t = "string" ->
                    Returned(Visited([i \in DOMAIN Chars(xs.v) |-> Str(Chars(xs.v)[i])]))
               [] OTHER -> Threw(Error("NotIterable", "for"))

\* the right operand of a division has arrived, and it is the number zero
DividingByZero ==
    /\ ctl.m = "val" /\ kont # << >> /\ Head(kont).k = "right"
    /\ Head(kont).e.operator = "/"
    /\ ctl.v = Num(0)

\* C22: whatever the left operand is, the operation / with a right operand
\* that is the number zero evaluates to 0: no error, no infinity, no NaN.
DivisionByZeroIsZero ==
    /\ [][DividingByZero => (ctl' = [m |-> "val", v |-> Num(0)] /\ kont' = Tail(kont))]_vars
    /\ []((Finished /\ FinishedFn = "ratio" /\ Arg(ctl.args, 2) = Num(0))
            => Returned(Num(0)))

\* a string was divided by zero
TextDividedByZero ==
    Finished /\ FinishedFn = "ratio" /\ ctl.args = <<Str("a"), Num(0)>> /\ Returned(Num(0))

\* the value that arrives is the object of the expression waiting on top
Arrives(k) == ctl.m = "val" /\ kont # << >> /\ Head(kont).k = k
YieldsUndefined == ctl' = [m |-> "val", v |-> Undefined] /\ kont' = Tail(kont)

\* C23: member access and index access on an object that is null or
\* undefined give undefined and raise nothing, while a method call with a
\* whitelisted name on a receiver that is null or undefined raises
\* NullReceiver.
NullObjectNullReceiver ==
    /\ [][(Arrives("member.object") /\ IsNullish(ctl.v)) => YieldsUndefined]_vars
    /\ [][(Arrives("index.index") /\ IsNullish(Head(kont).obj)) => YieldsUndefined]_vars
    /\ [][(Arrives("method.object") /\ IsNullish(ctl.v)
             /\ Head(kont).e.method \in allowedMethods)
            => Raises(Error("NullReceiver", Head(kont).e.method))]_vars
    /\ []((Finished /\ Host.name = "methods" /\ IsNullish(Arg(ctl.args, 1)))
            => CASE FinishedFn \in {"field", "at"} -> Returned(Undefined)
                 [] FinishedFn = "size" -> Threw(Error("NullReceiver", "length"))
                 [] OTHER -> TRUE)

\* an element of null was asked for
IndexOfNull ==
    Finished /\ FinishedFn = "at" /\ ctl.args = <<Null, Num(0)>> /\ Returned(Undefined)

\* names to look up: the bound ones, builtins, inherited ones, unknown ones
ShorthandNames ==
    DOMAIN scope \cup {"abs", "toString", "constructor", "g", "missing", "x", "count"}
ShorthandValues == {Num(0), Num(1), Num(-2), Bool(TRUE), Bool(FALSE)}
AtShorthand(type) == ctl.m = "expr" /\ TypeOf(ctl.e) = type

\* C24: in every scope and with every context an invocation runs with,
\* evaluating a bare number or boolean gives what evaluating {literal: value}
\* gives, and evaluating a bare string gives what evaluating {ref: value}
\* gives: the same value, or the same UndefinedVariable error.
ShorthandIsLiteralOrRef ==
    Running
      => /\ \A v \in ShorthandValues :
               /\ evalExpr(Machine, v) = evalExpr(Machine, LiteralExpr(v))
               /\ evalExpr(Machine, v).ctl = [m |-> "val", v |-> v]
         /\ \A n \in ShorthandNames :
               evalExpr(Machine, Str(n)) = evalExpr(Machine, RefExpr(n))
         /\ AtShorthand("string") => Step(Machine) = evalExpr(Machine, RefExpr(ctl.e.v))
         /\ (AtShorthand("number") \/ AtShorthand("boolean"))
              => Step(Machine) = evalExpr(Machine, LiteralExpr(ctl.e))

\* a bare string that the scope does not bind and the builtin table resolves
\* is about to be evaluated
ShorthandOfBuiltin ==
    /\ AtShorthand("string") /\ ctl.e.v \notin DOMAIN scope /\ ctl.e.v \in DOMAIN builtins

\* a bare number is about to be evaluated
ShorthandNumber == AtShorthand("number") /\ closures[cur].fnName = "visit"

\* addBuiltin(name, fn) has been called, and no later one replaced fn
Added(name) == name \in DOMAIN builtins /\ builtins[name] = Fn("addBuiltin", name)

\* C25: after addBuiltin(name, fn), every function-call node naming the name
\* invokes fn, unless the context of the running closure has a builtin of
\* that name: also in a closure compiled before addBuiltin, and also when a
\* function of that name is loaded or compiled.
AddedBuiltinIsCalled ==
    [][(AtCall /\ Added(CallName) /\ CallName \notin DOMAIN ContextEntries("builtins"))
        => /\ Called(Fn("addBuiltin", CallName))
           /\ closures' = closures
           /\ ctl' = [m |-> "val", v |-> Str("addBuiltin")]]_vars

\* compile raises FunctionNotFound in this step
NotFound ==
    /\ ctl = Idle /\ ctl'.m = "done" /\ ctl'.status = "threw"
    /\ ctl'.error.error = "FunctionNotFound"

\* C26: compile(name) raises FunctionNotFound when no definition is stored
\* under the name, and only then, and leaves the compiled cache as it was:
\* get gives for every name what it gave before, and no closure is created.
\* The host's compile creates a closure for stored names only.
CompileOfUnknownName ==
    /\ [][NotFound
            => /\ ctl'.error.arg \notin LoadedNames
               /\ compiledFunctions' = compiledFunctions
               /\ closures' = closures /\ functionDefs' = functionDefs
               /\ ctl'.error.arg \notin DOMAIN compiledFunctions']_vars
    /\ [][(ctl = Idle /\ Compiles)
            => \A id \in (DOMAIN closures') \ (DOMAIN closures) :
                  closures'[id].fnName \in LoadedNames]_vars

\* compile found no definition while the cache held a closure
NotFoundWithCache ==
    /\ ctl.m = "done" /\ ctl.status = "threw" /\ ctl.closure = 0
    /\ ctl.error = Error("FunctionNotFound", "g")
    /\ "caller" \in DOMAIN compiledFunctions /\ get(Machine, "g") = 0

\* C27: invoking a closure never changes the definition table or the
\* builtin table of the registry, nor the variables of the context a closure
\* was compiled with: let and set on a name seeded from the context change
\* the scope of the invocation only, and the next invocation starts from the
\* context's values again.
InvocationLeavesRegistryAndContext ==
    /\ [][(Running \/ ctl'.m = "body")
            => /\ functionDefs' = functionDefs /\ builtins' = builtins
               /\ \A id \in DOMAIN closures : closures'[id] = closures[id]]_vars
    /\ []((Finished /\ FinishedFn = "tick") => Returned(Array(<<Num(31), Num(31)>>)))
    /\ [](\A id \in DOMAIN closures :
             \E c \in DOMAIN Host.contexts : closures[id].context = Host.contexts[c])
    /\ []((Entered /\ HasField(EnteredClosure.context, "variables"))
            => \A n \in DOMAIN EnteredClosure.context.variables :
                  n \in DOMAIN scope
                  /\ (n \notin {EnteredClosure.params[i] : i \in DOMAIN EnteredClosure.params}
                        => scope[n] = EnteredClosure.context.variables[n]))

\* a closure that assigns to a name seeded from the context was called after
\* an earlier call of it
AssignedContextNameTwice ==
    /\ ctl.m = "stmt" /\ "let" \in DOMAIN ctl.s /\ closures[cur].fnName = "tick"
    /\ scope.c = Num(31) /\ scope.a = Num(10)
    /\ closures[cur].context.variables.c = Num(30)

\* the value of the last property of an object construction arrives
ObjectCompletes ==
    /\ Arrives("properties")
    /\ Len(Head(kont).done) + 1 = Len(Head(kont).e.properties)
\* the object twin builds from x
Made(x) == Object([a |-> x, b |-> Object([c |-> Num(Abs(x.v))])])

\* C28: an object construction gives an object that has the values its
\* property expressions evaluated to, under their keys, and nothing else;
\* it is a new object and the construction changes nothing besides.  So
\* evaluating the same construction twice against equal scopes gives
\* structurally equal objects: the two objects of one invocation are equal,
\* and so are those of any two invocations with the same argument.
ObjectConstructionIsRepeatable ==
    /\ [][ObjectCompletes
            => LET properties == Head(kont).e.properties
                   values == Append(Head(kont).done, ctl.v)
               IN  /\ ctl' = [m |-> "val", v |-> ObjRef(Len(heap) + 1)]
                   /\ Len(heap') = Len(heap) + 1
                   /\ SubSeq(heap', 1, Len(heap)) = heap
                   /\ heap'[Len(heap')].kind = "object"
                   /\ DOMAIN heap'[Len(heap')].props
                        = {properties[i][1] : i \in DOMAIN properties}
                   /\ \A i \in DOMAIN properties :
                        heap'[Len(heap')].props[properties[i][1]] = values[i]
                   /\ kont' = Tail(kont) /\ scope' = scope /\ log' = log
                   /\ UNCHANGED <<functionDefs, compiledFunctions, builtins, closures>>]_vars
    /\ []((Finished /\ FinishedFn = "twin")
            => Returned(Array(<<Made(ctl.args[1]), Made(ctl.args[1]), Bool(FALSE)>>)))

\* the second of the two constructions has given its object
SecondObjectMade ==
    /\ ctl.m = "val" /\ kont # << >> /\ Head(kont).k = "let" /\ Head(kont).s.let = "second"
    /\ Snapshot(heap, ctl.v) = Snapshot(heap, scope.first)
    /\ ctl.v # scope.first

CompiledAll == ctl.m = "done" /\ "compileAll" \in DOMAIN ctl

\* C29: compileAll(context) returns a mapping whose keys are exactly the
\* names of the loaded definitions; the value under a name is a closure of
\* that name, created by this call and bound to the given context, and get
\* of the name returns that same closure afterwards.
CompileAllCoversLoadedNames ==
    /\ [](CompiledAll
            => /\ DOMAIN ctl.value = LoadedNames
               /\ \A n \in LoadedNames :
                    /\ ctl.value[n] \in DOMAIN closures
                    /\ closures[ctl.value[n]].fnName = n
                    /\ closures[ctl.value[n]].context = ctl.compileAll
                    /\ closures[ctl.value[n]].def = MapGet(functionDefs, n)
                    /\ get(Machine, n) = ctl.value[n])
    /\ [][(ctl'.m = "done" /\ "compileAll" \in DOMAIN ctl')
            => /\ functionDefs' = functionDefs
               /\ Len(closures') = Len(closures) + Len(functionDefs)
               /\ \A n \in LoadedNames : ctl'.value[n] \notin DOMAIN closures]_vars

\* compileAll has returned closures for two names, with a context
CompiledAllOfTwo ==
    /\ CompiledAll /\ Cardinality(DOMAIN ctl.value) = 2
    /\ ctl.compileAll # Undefined

\* a while statement is about to start
AtWhile == ctl.m = "stmt" /\ "while" \in DOMAIN ctl.s
\* the loop on top of kont ends in this step as a loop does whose guard is falsy
EndsQuietly == ctl' = [m |-> "sig", r |-> NullResult] /\ kont' = Tail(kont)

\* C30: the cap is counted per execution of a while statement and never
\* truncates silently.  Each execution starts its count at zero, whatever
\* loops ran before it or run around it; a loop ends quietly exactly when its
\* guard is falsy, so a loop whose guard turns falsy completes with the
\* effects of all its iterations; and a loop whose guard stays truthy ends
\* with LoopLimitExceeded.
CapPerLoopExecution ==
    /\ [][AtWhile => (Head(kont').k = "while" /\ Head(kont').iterations = 0)]_vars
    /\ [][Arrives("while") => (EndsQuietly <=> ~Truthy(ctl.v))]_vars
    /\ []((Finished /\ FinishedFn = "countdown") => Returned(Num(0)))
    /\ []((Finished /\ FinishedFn = "nest") => Returned(Num(5)))
    /\ [](Spinning => <>(Finished /\ FinishedFn = "spin"
                                  /\ Threw(Error("LoopLimitExceeded", "while"))))

(***************************************************************************)
(* Method calls: the property read and the invocation.                     *)
(***************************************************************************)
\* the calls of the log, in order
Calls == SelectSeq(log, LAMBDA r : r.ev = "call")
\* the expression whose value is asked for next
Asks(e) == ctl' = [m |-> "expr", e |-> e]
\* f is applied to args with this as its target, for the expression on top
Applies(f, this, args) ==
    LET r == NativeResult(Machine, f, this, args)
    IN  /\ ctl' = [m |-> "val", v |-> r.value]
        /\ heap' = r.heap
        /\ kont' = Tail(kont)
        /\ log' = Append(log, [ev |-> "call", fn |-> f, args |-> args])
\* what x.length is for a value x of the host
LengthOf(x) ==
    CASE x.t = "array" -> Num(Len(x.elems))
      [] x.t = "string" -> Num(Len(x.v))
      [] x.t = "object" /\ "length" \in DOMAIN x.props -> x.props.length
      [] OTHER -> Undefined

\* C31: a method call with a whitelisted name on a receiver that is neither
\* null nor undefined.  When the receiver's property of that name is not
\* callable, the call gives the property's value and evaluates none of its
\* arguments; otherwise the arguments are evaluated from left to right, all
\* of them, and then the property is applied to their values with the
\* receiver as its target.
MethodReadsOrInvokes ==
    /\ [][(Arrives("method.object") /\ ~IsNullish(ctl.v)
             /\ Head(kont).e.method \in allowedMethods)
            => LET e == Head(kont).e
                   method == GetProperty(heap, ctl.v, e.method)
               IN  IF method.t # "function"
                   THEN /\ ctl' = [m |-> "val", v |-> method]
                        /\ kont' = Tail(kont)
                        /\ log' = log /\ heap' = heap /\ scope' = scope
                   ELSE IF Arguments(e) = << >>
                   THEN Applies(method, ctl.v, << >>)
                   ELSE /\ Asks(Arguments(e)[1])
                        /\ kont' = <<[k |-> "method.arguments", e |-> e, obj |-> ctl.v,
                                      method |-> method, done |-> << >>]>>
                                     \o Tail(kont)
                        /\ log' = log /\ heap' = heap]_vars
    /\ [][Arrives("method.arguments")
            => LET item == Head(kont)
                   done == Append(item.done, ctl.v)
               IN  IF Len(done) < Len(item.e.arguments)
                   THEN /\ Asks(item.e.arguments[Len(done) + 1])
                        /\ kont' = <<[item EXCEPT !.done = done]>> \o Tail(kont)
                        /\ log' = log /\ heap' = heap
                   ELSE Applies(item.method, item.obj, done)]_vars
    /\ []((Finished /\ Host.name = "target" /\ FinishedFn = "measure")
            => Calls = << >> /\ Returned(LengthOf(ctl.args[1])))
    /\ []((Finished /\ Host.name = "target" /\ FinishedFn = "append")
            => LET x == ctl.args[1]
               IN  CASE x.t = "array" ->
                          /\ Calls = <<ProbeCall(1), ProbeCall(-2),
                                       [ev |-> "call", fn |-> Fn("Array.prototype", "push"),
                                        args |-> <<Num(1), Num(2)>>]>>
                          /\ Returned(Array(<<Num(Len(x.elems) + 2),
                                              Array(x.elems \o <<Num(1), Num(2)>>)>>))
                     [] x.t = "object" /\ x.props.push.t = "function" ->
                          /\ Calls = <<ProbeCall(1), ProbeCall(-2),
                                       [ev |-> "call", fn |-> x.props.push,
                                        args |-> <<Num(1), Num(2)>>]>>
                          /\ Returned(Array(<<Str("host"), x>>))
                     [] x.t = "object" /\ x.props.push.t # "function" ->
                          Calls = << >> /\ Returned(Array(<<x.props.push, x>>))
                     [] OTHER -> Calls = << >> /\ Returned(Array(<<Undefined, x>>)))

\* two arguments were evaluated and pushed onto the array that receives them
PushedTwo ==
    /\ Finished /\ FinishedFn = "append" /\ ctl.args = <<Array(<<Num(7)>>)>>
    /\ Returned(Array(<<Num(3), Array(<<Num(7), Num(1), Num(2)>>)>>))
\* the length of a string was read by a method call that has an argument
LengthRead ==
    Finished /\ FinishedFn = "measure" /\ ctl.args = <<Str("ab")>> /\ Returned(Num(2))

(***************************************************************************)
(* The context a called closure runs with.                                 *)
(***************************************************************************)
\* the closure of the innermost invocation on the stack (0: none)
RECURSIVE Innermost(_)
Innermost(k) ==
    IF k = << >> THEN 0
    ELSE IF Head(k).k \in {"compiledFn", "compiledFn.return"} THEN Head(k).closure
    ELSE Innermost(Tail(k))
\* the closure entered in this step starts as a closure of this context starts
StartsWith(context) ==
    LET frame == Head(kont')
        c == closures'[frame.closure]
    IN  /\ c.context = context
        /\ cur' = frame.closure
        /\ scope' = InitialScope(context, c.params, frame.args)
        /\ log' = IF HasField(context, "onCall")
                  THEN Append(log, [ev |-> "onCall", fn |-> c.fnName, args |-> frame.args])
                  ELSE log
\* what inner returns and what it logs, in a closure of the context
InnerResult(context) ==
    Array(<<context.variables.v, Str(context.builtins.tag.owner)>>)
InnerLog(context) ==
    (IF HasField(context, "onCall")
     THEN <<[ev |-> "onCall", fn |-> "inner", args |-> << >>]>> ELSE << >>)
    \o <<[ev |-> "call", fn |-> context.builtins.tag, args |-> << >>]>>
    \o (IF HasField(context, "onReturn")
        THEN <<[ev |-> "onReturn", fn |-> "inner", result |-> ArrRef(1)]>> ELSE << >>)

\* C32: a function-call node that resolves to a loaded function enters the
\* closure the compiled cache has under the name, when it has one, and that
\* closure runs with the context it was compiled with: its variables seed the
\* scope, its builtins and functions resolve the names, its hooks are called,
\* and the caller's are not.  The caller's context is given to the callee
\* only when the cache has no closure of the name at the moment of the call,
\* and the closure then created is the one of that context.
CalleeKeepsItsContext ==
    /\ [][(AtCall /\ Enters)
            => IF CallName \in DOMAIN compiledFunctions
               THEN /\ Head(kont').closure = compiledFunctions[CallName]
                    /\ closures' = closures /\ compiledFunctions' = compiledFunctions
                    /\ StartsWith(closures[compiledFunctions[CallName]].context)
               ELSE /\ Head(kont').closure = Len(closures) + 1
                    /\ Len(closures') = Len(closures) + 1
                    /\ closures'[Len(closures')].fnName = CallName
                    /\ StartsWith(closures[cur].context)]_vars
    /\ [](Running => cur = Innermost(kont))
    /\ []((Finished /\ Host.name = "contexts" /\ Len(closures) = 2
             /\ closures[1].fnName = "inner")
            => /\ FinishedFn = "inner" => Returned(InnerResult(closures[ctl.closure].context))
               /\ FinishedFn = "outer"
                    => /\ Returned(InnerResult(closures[1].context))
                       /\ log = (IF HasField(closures[2].context, "onCall")
                                 THEN <<[ev |-> "onCall", fn |-> "outer", args |-> << >>]>>
                                 ELSE << >>)
                                \o InnerLog(closures[1].context)
                                \o (IF HasField(closures[2].context, "onReturn")
                                    THEN <<[ev |-> "onReturn", fn |-> "outer",
                                            result |-> ArrRef(1)]>>
                                    ELSE << >>))
    /\ []((Finished /\ Host.name = "contexts" /\ Len(closures) = 2
             /\ FinishedFn = "outer" /\ ctl.closure = 1 /\ closures[2].context # closures[1].context)
            => Returned(InnerResult(closures[2].context)))

\* outer, compiled with one context, has called inner, compiled before with
\* the other one
CalledAcrossContexts ==
    /\ Finished /\ FinishedFn = "outer" /\ Len(closures) = 2
    /\ closures[1] = [fnName |-> "inner", def |-> closures[1].def,
                      params |-> << >>, context |-> ContextB]
    /\ closures[2].context = ContextA
    /\ Returned(Array(<<Num(2), Str("contextB.builtins")>>))

(***************************************************************************)
(* Loading again what is compiled.                                         *)
(***************************************************************************)
\* a load ends in this step, with the compiler back or with an error
LoadEnds == ctl = Idle /\ ctl'.m = "done" /\ "load" \in DOMAIN ctl'
\* the number the definition of f returns
Answer(def) == def.config.return.literal

\* C33: a load leaves the compiled cache and every closure as they were, also
\* for a name it stores a new definition under.  The closure cached under a
\* name changes only when the host compiles the name (compile, compileAll),
\* and a closure runs the body and the trailing return of the definition it
\* was compiled from.  So get(name), the closures handed out before and the
\* function-call nodes naming the name go on with the old definition after a
\* load, until the name is compiled again.
LoadKeepsCompiledCache ==
    /\ [][LoadEnds => compiledFunctions' = compiledFunctions /\ closures' = closures]_vars
    /\ [][\A n \in DOMAIN compiledFunctions :
             /\ n \in DOMAIN compiledFunctions'
             /\ compiledFunctions'[n] # compiledFunctions[n]
                  => /\ ctl = Idle /\ MapHas(functionDefs, n)
                     /\ compiledFunctions'[n] > Len(closures)
                     /\ closures'[compiledFunctions'[n]].fnName = n]_vars
    /\ [][\A id \in DOMAIN closures :
             id \in DOMAIN closures' /\ closures'[id] = closures[id]]_vars
    /\ [][Enters => ctl'.ss = closures'[Head(kont').closure].def.config.body.items]_vars
    /\ [][(AtCall /\ Enters /\ CallName \in DOMAIN compiledFunctions)
            => Head(kont').closure = compiledFunctions[CallName]]_vars
    /\ [](Got /\ ctl.get \in DOMAIN compiledFunctions
            => ctl.value = compiledFunctions[ctl.get])
    /\ []((Finished /\ Host.name = "stale")
            => Returned(Answer(closures[IF FinishedFn = "f" THEN ctl.closure
                                        ELSE compiledFunctions["f"]].def)))

\* h has called f and got what the replaced definition of f returns
CalledReplacedDefinition ==
    /\ Finished /\ Host.name = "stale" /\ FinishedFn = "h" /\ Returned(Num(1))
    /\ Answer(MapGet(functionDefs, "f")) = Num(2)

(***************************************************************************)
(* A load that raises.                                                     *)
(***************************************************************************)
LoadRaises ==
    ctl = Idle /\ ctl'.m = "done" /\ "load" \in DOMAIN ctl' /\ ctl'.status = "threw"
\* the definition stored under the name is the one entry e of the document gives
Stores(defs, doc, e) == MapHas(defs, doc[e].key) /\ MapGet(defs, doc[e].key) = doc[e].value

\* C34: load is not all or nothing.  When it raises, at the first ill-formed
\* entry of the document, every entry before that one is stored and can be
\* compiled afterwards, the closure having the entry's definition; the
\* ill-formed entry and the entries after it are not stored; and whatever
\* earlier loads stored under other names than those of the entries before
\* the ill-formed one, the names of the ill-formed entry and of the later
\* entries included, is as it was.  The compiled cache is as it was, too.
LoadStoresUpToTheOffendingEntry ==
    /\ [][LoadRaises
            => LET doc == Host.documents[ctl'.load]
                   bad == FirstIllFormed(doc)
                   before == {doc[e].key : e \in 1..(bad - 1)}
               IN  /\ bad > 0
                   /\ \A e \in 1..(bad - 1) : Stores(functionDefs', doc, e)
                   /\ LoadedNames' = LoadedNames \cup before
                   /\ \A n \in LoadedNames \ before :
                         MapGet(functionDefs', n) = MapGet(functionDefs, n)
                   /\ \A e \in bad..Len(doc) :
                         doc[e].key \notin before /\ ~Stores(functionDefs, doc, e)
                           => ~Stores(functionDefs', doc, e)
                   /\ UNCHANGED <<compiledFunctions, closures, builtins>>]_vars
    /\ [](\A n \in LoadedNames :
             LET C == compile(Machine, n, Undefined)
             IN  /\ get(C, n) = Len(closures) + 1
                 /\ C.closures[Len(closures) + 1].def = MapGet(functionDefs, n))
    /\ []((Loaded /\ Host.name = "partial" /\ ctl.load = 2)
            => /\ ctl.status = "threw"
               /\ Answer(MapGet(functionDefs, "a")) = Num(2)
               /\ LoadedNames \in {{"a"}, {"a", "c"}}
               /\ "c" \in LoadedNames => Answer(MapGet(functionDefs, "c")) = Num(3))
    /\ []((Finished /\ Host.name = "partial")
            => Returned(Answer(closures[ctl.closure].def)))

\* the entry before the ill-formed one replaced an earlier definition and was
\* compiled and called; the entry after it did not replace the earlier one
StoredHalfOfTheDocument ==
    /\ Finished /\ Host.name = "partial" /\ FinishedFn = "a" /\ Returned(Num(2))
    /\ LoadedNames = {"a", "c"}
    /\ Answer(MapGet(functionDefs, "c")) = Num(3)

(***************************************************************************)
(* The number of iterations of a sequence iteration.                       *)
(***************************************************************************)
\* C35: a sequence iteration over an array of n elements runs its body at
\* most n times, whatever the body does, a push or an unshift on that array
\* included: the count of the iterations never exceeds the number of
\* elements the array had when the invocation began, and it is at most that
\* number when the invocation returns.
SequenceIterationIsBounded ==
    /\ (Running /\ Host.name = "grow" /\ "count" \in DOMAIN scope)
         => scope["count"].v <= Len(kont[Len(kont)].args[1].elems)
    /\ (Finished /\ Host.name = "grow")
         => ctl.value.elems[1].v <= Len(ctl.args[1].elems)

(***************************************************************************)
(* The closure a function-call node compiles.                              *)
(***************************************************************************)
\* a function-call node enters a closure in this step, the compiled cache
\* having none under the name
CompilesOnCall == AtCall /\ Enters /\ CallName \notin DOMAIN compiledFunctions

\* C36: a function-call node that finds its name among the loaded definitions
\* only compiles it, with the caller's context, and puts the closure in the
\* compiled cache before it runs it.  From then on, and whether or not that
\* invocation raises, get(name) answers that closure, although the host has
\* not compiled the name, and the function-call nodes naming the name enter
\* that same closure and compile nothing, until the host compiles the name.
CallNodeFillsCompiledCache ==
    /\ [][CompilesOnCall
            => LET id == Len(closures) + 1
               IN  /\ MapHas(functionDefs, CallName)
                   /\ closures' = Append(closures,
                                         [fnName |-> CallName,
                                          def |-> MapGet(functionDefs, CallName),
                                          params |-> normalizeParams(
                                              MapGet(functionDefs, CallName).config.params),
                                          context |-> closures[cur].context])
                   /\ compiledFunctions' = (CallName :> id) @@ compiledFunctions
                   /\ Head(kont').closure = id
                   /\ get([Machine EXCEPT !.compiledFunctions = compiledFunctions'],
                          CallName) = id]_vars
    /\ [][(AtCall /\ Enters /\ ~CompilesOnCall)
            => /\ Head(kont').closure = compiledFunctions[CallName]
               /\ UNCHANGED <<closures, compiledFunctions>>]_vars
    /\ [][Running
            => \A n \in DOMAIN compiledFunctions :
                  n \in DOMAIN compiledFunctions'
                    /\ compiledFunctions'[n] = compiledFunctions[n]]_vars
    /\ [][(ctl.m = "done" \/ (ctl = Idle /\ ~Compiles))
            => compiledFunctions' = compiledFunctions]_vars
    /\ [](Got => ctl.value = IF ctl.get \in DOMAIN compiledFunctions
                             THEN compiledFunctions[ctl.get] ELSE 0)

\* get answers a closure of inner that a call node compiled: the host
\* compiles MaxClosures closures at most, and this one is beyond
GotWhatTheCallCompiled ==
    /\ Got /\ ctl.get = "inner" /\ ctl.value = Len(closures)
    /\ Len(closures) > MaxClosures
    /\ closures[ctl.value].fnName = "inner"
    /\ \A id \in 1..MaxClosures : closures[id].fnName = "outer"

=============================================================================
